---- MODULE Spec2Model ----
(***************************************************************************)
(* A model of the SunScrape lookup subsystem: the name normalizers, the    *)
(* candidate and committee roster indexes, find_by_name with its lookup    *)
(* cache and online fallback, and merge_with_transactions.                 *)
(*                                                                         *)
(* Python strings are sequences of one-character strings, so that the      *)
(* regular expressions, split/join/strip and the substring tests are       *)
(* computed character by character as the code computes them.  Python's    *)
(* None is the one-element sequence None, which no string equals.          *)
(***************************************************************************)
EXTENDS Integers, Sequences, FiniteSets, TLC

VARIABLES
    candidates,        \* CandidateLookup.candidates: account -> row
    cand_name_index,   \* CandidateLookup.name_index: normalized full name -> accounts
    lastname_index,    \* CandidateLookup.lastname_index
    component_index,   \* CandidateLookup.component_index: <<first, last>> -> accounts
    total_candidates,  \* CandidateLookup.total_candidates
    cand_cache,        \* CandidateLookup._lookup_cache: <<normalized, party>> -> matches
    committees,        \* CommitteeLookup.committees: account -> row
    comm_name_index,   \* CommitteeLookup.name_index: normalized lower name -> accounts
    total_committees,  \* CommitteeLookup.total_committees
    comm_cache,        \* CommitteeLookup._lookup_cache: normalized lower name -> matches
    call,              \* the last operation called, with its arguments
    ret,               \* what that operation returned
    trace,             \* what that operation did: index scans, online requests
    fn_in,             \* the argument of the pure function under check
    fn_out,            \* its result
    payload,           \* the payload attribute of each scraper class
    steps              \* operations run so far

lookupVars == <<candidates, cand_name_index, lastname_index, component_index,
                total_candidates, cand_cache, committees, comm_name_index,
                total_committees, comm_cache>>
callVars == <<call, ret, trace>>
fnVars == <<fn_in, fn_out>>
vars == <<lookupVars, callVars, fnVars, payload, steps>>

---------------------------------------------------------------------------
(* Bounds of the model *)

\* the longest person name the normalizer check draws
MaxLen == 5
\* the longest committee name the normalizer check draws
MaxCommLen == 7
\* operations in one run of the lookup specification
MaxSteps == 3
\* transactions in one merge_with_transactions call
MaxTx == 3

---------------------------------------------------------------------------
(* Python's string operations *)

None == <<"<None>">>

IsSpace(c) == c = " "

UpperChars == <<"A","B","C","D","E","F","G","H","I","J","K","L","M",
                "N","O","P","Q","R","S","T","U","V","W","X","Y","Z">>
LowerChars == <<"a","b","c","d","e","f","g","h","i","j","k","l","m",
                "n","o","p","q","r","s","t","u","v","w","x","y","z">>

\* str.lower() on one character
LowerChar(c) ==
    IF \E i \in 1..Len(UpperChars) : UpperChars[i] = c
    THEN LowerChars[CHOOSE i \in 1..Len(UpperChars) : UpperChars[i] = c]
    ELSE c

\* str.lower()
Lower(s) == [i \in 1..Len(s) |-> LowerChar(s[i])]

\* str.lstrip() / str.rstrip() / str.strip(): whitespace off the ends
RECURSIVE LStrip(_)
LStrip(s) == IF s # <<>> /\ IsSpace(Head(s)) THEN LStrip(Tail(s)) ELSE s

RECURSIVE RStrip(_)
RStrip(s) ==
    IF s # <<>> /\ IsSpace(s[Len(s)]) THEN RStrip(SubSeq(s, 1, Len(s) - 1)) ELSE s

Strip(s) == LStrip(RStrip(s))

\* str.strip(c): the character c off both ends
RECURSIVE LStripChar(_, _)
LStripChar(s, c) == IF s # <<>> /\ Head(s) = c THEN LStripChar(Tail(s), c) ELSE s

RECURSIVE RStripChar(_, _)
RStripChar(s, c) ==
    IF s # <<>> /\ s[Len(s)] = c THEN RStripChar(SubSeq(s, 1, Len(s) - 1), c) ELSE s

StripChar(s, c) == LStripChar(RStripChar(s, c), c)

\* the first word of s (s does not start with whitespace) and what follows it
RECURSIVE WordLen(_)
WordLen(s) == IF s = <<>> \/ IsSpace(Head(s)) THEN 0 ELSE 1 + WordLen(Tail(s))

\* str.split(): the words between runs of whitespace
RECURSIVE Split(_)
Split(s) ==
    LET t == LStrip(s)
        n == WordLen(t)
    IN  IF t = <<>> THEN <<>>
        ELSE <<SubSeq(t, 1, n)>> \o Split(SubSeq(t, n + 1, Len(t)))

\* sep.join(parts)
RECURSIVE Join(_, _)
Join(parts, sep) ==
    IF parts = <<>> THEN <<>>
    ELSE IF Len(parts) = 1 THEN parts[1]
    ELSE parts[1] \o sep \o Join(Tail(parts), sep)

\* str.startswith(prefix)
StartsWith(s, prefix) ==
    Len(prefix) <= Len(s) /\ SubSeq(s, 1, Len(prefix)) = prefix

\* str.endswith(suffix)
EndsWith(s, suffix) ==
    Len(suffix) <= Len(s) /\ SubSeq(s, Len(s) - Len(suffix) + 1, Len(s)) = suffix

\* sub in s
Contains(sub, s) ==
    \E i \in 0..(Len(s) - Len(sub)) : SubSeq(s, i + 1, i + Len(sub)) = sub

\* the index of the first c in s, 0 when there is none
RECURSIVE IndexOf(_, _)
IndexOf(s, c) ==
    IF s = <<>> THEN 0
    ELSE IF Head(s) = c THEN 1
    ELSE LET k == IndexOf(Tail(s), c) IN IF k = 0 THEN 0 ELSE k + 1

\* re.sub(r'\([^)]*\)', '', s): every leftmost "(" that a ")" follows is cut
\* with everything up to the first ")" after it
RECURSIVE RemoveParens(_)
RemoveParens(s) ==
    LET i == IndexOf(s, "(")
        rest == SubSeq(s, i + 1, Len(s))
        j == IndexOf(rest, ")")
    IN  IF i = 0 \/ j = 0 THEN s
        ELSE SubSeq(s, 1, i - 1) \o RemoveParens(SubSeq(rest, j + 1, Len(rest)))

---------------------------------------------------------------------------
(* candidate_lookup.py: the name normalizer *)

\* the alternatives of the suffix pattern (Jr\.?|Sr\.?|II|III|IV|V)
NameSuffixes == { <<"J","r">>, <<"J","r",".">>, <<"S","r">>, <<"S","r",".">>,
                  <<"I","I">>, <<"I","I","I">>, <<"I","V">>, <<"V">> }

\* t ends in whitespace and a comma: the \s+, of the suffix pattern
EndsSpaceComma(t) ==
    Len(t) >= 2 /\ t[Len(t)] = "," /\ IsSpace(t[Len(t) - 1])

\* re.sub(r'\s+,\s*(Jr\.?|Sr\.?|II|III|IV|V)$', '', s, flags=re.IGNORECASE):
\* s is cut when it ends in whitespace, a comma, optional whitespace and a
\* suffix; the match starts at the first character of the whitespace run
\* before the comma.  ($ is the end of s: no name of the model holds a newline.)
SuffixMatches(s, d) ==
    /\ Len(d) <= Len(s)
    /\ Lower(SubSeq(s, Len(s) - Len(d) + 1, Len(s))) = Lower(d)
    /\ EndsSpaceComma(RStrip(SubSeq(s, 1, Len(s) - Len(d))))

\* s without the match of the suffix pattern on suffix d
DropLast(t) == SubSeq(t, 1, Len(t) - 1)

SuffixCut(s, d) ==
    RStrip(DropLast(RStrip(SubSeq(s, 1, Len(s) - Len(d)))))

RemoveNameSuffix(s) ==
    IF \E d \in NameSuffixes : SuffixMatches(s, d)
    THEN SuffixCut(s, CHOOSE d \in NameSuffixes : SuffixMatches(s, d))
    ELSE s

normalize_name(name) ==
    IF name = None \/ name = <<>> THEN <<>>
    ELSE Strip(StripChar(
             Strip(Join(Split(RemoveNameSuffix(RemoveParens(name))), <<" ">>)),
             ","))

---------------------------------------------------------------------------
(* committee_lookup.py: the committee name normalizer *)

Designators == { <<"P","C">>, <<"P","A","C">>, <<"I","N","C">>, <<"L","L","C">>,
                 <<"C","O","R","P">>,
                 <<"C","O","R","P","O","R","A","T","I","O","N">>,
                 <<"C","O","M","M","I","T","T","E","E">> }

\* t, which has no trailing whitespace, ends in whitespace and designator d
EndsInDesignator(t, d) ==
    /\ Len(d) < Len(t)
    /\ Lower(SubSeq(t, Len(t) - Len(d) + 1, Len(t))) = Lower(d)
    /\ IsSpace(t[Len(t) - Len(d)])

\* re.sub(r'\s+(PC|PAC|INC|LLC|CORP|CORPORATION|COMMITTEE)\s*$', '', s,
\*        flags=re.IGNORECASE) on s = t and trailing whitespace
CutDesignator(s, t) ==
    IF \E d \in Designators : EndsInDesignator(t, d)
    THEN RStrip(SubSeq(t, 1,
             Len(t) - Len(CHOOSE d \in Designators : EndsInDesignator(t, d))))
    ELSE s

RemoveDesignator(s) == CutDesignator(s, RStrip(s))

\* the last step of normalize_committee_name
LowerIf(lowercase, s) == IF lowercase THEN Lower(s) ELSE s

normalize_committee_name(name, lowercase) ==
    IF name = None \/ name = <<>> THEN <<>>
    ELSE LowerIf(lowercase, Strip(Join(Split(RemoveDesignator(name)), <<" ">>)))

---------------------------------------------------------------------------
(* candidate_lookup.py: build_full_name, parse_name_components *)

\* dict.get(key, default)
Get(d, key, default) == IF key \in DOMAIN d THEN d[key] ELSE default

\* d[key] = value on a dict
Put(d, key, value) ==
    [k \in DOMAIN d \cup {key} |-> IF k = key THEN value ELSE d[k]]

\* x or y on strings and None
Or(x, y) == IF x = <<>> \/ x = None THEN y ELSE x

build_full_name(first, last, middle) ==
    IF middle # <<>> /\ middle # None /\ Strip(middle) # <<>>
    THEN Join(<<Strip(last), Strip(first), Strip(middle)>>, <<",", " ">>)
    ELSE Join(<<Strip(last), Strip(first)>>, <<",", " ">>)

\* the "First Middle Last" branch and the single-word fallback, on name.split()
parse_words(parts) ==
    IF Len(parts) >= 2
    THEN <<parts[1], parts[Len(parts)],
           IF Len(parts) > 2
           THEN Join(SubSeq(parts, 2, Len(parts) - 1), <<" ">>) ELSE <<>> >>
    ELSE IF Len(parts) = 1 THEN << <<>>, parts[1], <<>> >>
    ELSE << <<>>, <<>>, <<>> >>

\* the "Last, First Middle" branch: last and first_middle = parts[1].split()
parse_comma(name, last, first_middle) ==
    IF Len(first_middle) >= 1
    THEN <<first_middle[1], last,
           IF Len(first_middle) > 1 THEN Join(Tail(first_middle), <<" ">>) ELSE <<>> >>
    ELSE parse_words(Split(name))

\* name is normalized; c is the place of its first comma, 0 without one
parse_normalized(name, c) ==
    IF c > 0
    THEN parse_comma(name, Strip(SubSeq(name, 1, c - 1)),
                     Split(SubSeq(name, c + 1, Len(name))))
    ELSE parse_words(Split(name))

parse_at_comma(name) == parse_normalized(name, IndexOf(name, ","))

parse_name_components(raw) == parse_at_comma(normalize_name(raw))

---------------------------------------------------------------------------
(* committee_lookup.py: get_search_variants *)

\* normalized and, when its last word has at most 3 characters, normalized
\* without that word
variants_of(normalized, words) ==
    IF /\ Len(words) > 1
       /\ Len(words[Len(words)]) <= 3
       /\ Join(SubSeq(words, 1, Len(words) - 1), <<" ">>) # <<>>
    THEN <<normalized, Join(SubSeq(words, 1, Len(words) - 1), <<" ">>)>>
    ELSE <<normalized>>

variants_of_normalized(normalized) == variants_of(normalized, Split(normalized))

\* a variant of get_search_variants that keeps the normalized term only
search_variants_plain(search_term) ==
    <<normalize_committee_name(search_term, TRUE)>>

get_search_variants(search_term) ==
    variants_of_normalized(normalize_committee_name(search_term, TRUE))

---------------------------------------------------------------------------
(* candidate_lookup.py: class CandidateLookup.  A lookup object is a record *)
(* L of its attributes; each method is an operator from L to the new L and  *)
(* what the call returned.                                                  *)

\* match_confidence in hundredths: 1.0, 0.95 and 0.9
ConfExact == 100
ConfComponent == 95
ConfOnline == 90

\* a defaultdict(list) index: index[key].append(acct_num)
IndexAppend(index, key, acct_num) ==
    Put(index, key, Append(Get(index, key, <<>>), acct_num))

\* CandidateLookup.__init__ with auto_load=False
NewCandidateLookup ==
    [candidates |-> <<>>, name_index |-> <<>>, lastname_index |-> <<>>,
     component_index |-> <<>>, total_candidates |-> 0, cache |-> <<>>]

\* the three appends of _index_candidate, each under its own condition
index_keys(L, acct_num, normalized_full, normalized_first, normalized_last) ==
    [L EXCEPT
       !.name_index = IF normalized_full # <<>>
                      THEN IndexAppend(@, normalized_full, acct_num) ELSE @,
       !.lastname_index = IF normalized_last # <<>>
                          THEN IndexAppend(@, normalized_last, acct_num) ELSE @,
       !.component_index = IF normalized_first # <<>> /\ normalized_last # <<>>
                           THEN IndexAppend(@, <<normalized_first, normalized_last>>,
                                            acct_num)
                           ELSE @]

index_names(L, acct_num, first, last, middle) ==
    index_keys(L, acct_num, normalize_name(build_full_name(first, last, middle)),
               normalize_name(first), normalize_name(last))

index_candidate(L, acct_num, candidate) ==
    index_names(L, acct_num, Strip(Get(candidate, "NameFirst", <<>>)),
                Strip(Get(candidate, "NameLast", <<>>)),
                Strip(Get(candidate, "NameMiddle", <<>>)))

\* loaded += 1
CountRow(r) == [r EXCEPT !.loaded = @ + 1]

\* a variant of cand_store_row that indexes the row without storing it
cand_index_row(L, acct_num, row) == index_candidate(L, acct_num, row)

\* self.candidates[acct_num] = dict(row); self._index_candidate(acct_num, row)
cand_store_row(L, acct_num, row) ==
    index_candidate([L EXCEPT !.candidates = Put(@, acct_num, row)], acct_num, row)

\* a line with fewer fields than the header: csv.DictReader sets the missing
\* ones to None, and None.strip() raises AttributeError
Unset(row, key) == Get(row, key, <<>>) = None

\* the exception leaves the with block: except Exception raises ValueError
LoadRaised(lookup) == lookup @@ [loaded |-> 0, raised |-> "ValueError"]

\* the loop of _load_from_file over the rows of the file; a row whose name
\* field is unset is stored before _index_candidate raises on it
RECURSIVE cand_load_rows(_, _)
cand_load_row(L, row, acct_num, rest) ==
    IF acct_num = <<>> THEN cand_load_rows(L, rest)
    ELSE IF \E key \in {"NameFirst", "NameLast", "NameMiddle"} : Unset(row, key)
    THEN LoadRaised([L |-> [L EXCEPT !.candidates = Put(@, acct_num, row)]])
    ELSE CountRow(cand_load_rows(cand_store_row(L, acct_num, row), rest))

cand_load_rows(L, rows) ==
    IF rows = <<>> THEN [L |-> L, loaded |-> 0, raised |-> ""]
    ELSE IF Unset(Head(rows), "AcctNum") THEN LoadRaised([L |-> L])
    ELSE cand_load_row(L, Head(rows), Strip(Get(Head(rows), "AcctNum", <<>>)),
                       Tail(rows))

\* self.total_candidates += loaded; return loaded
cand_loaded(r) ==
    IF r.raised # "" THEN [L |-> r.L, raised |-> r.raised, ret |-> 0]
    ELSE [L |-> [r.L EXCEPT !.total_candidates = @ + r.loaded],
          raised |-> "", ret |-> r.loaded]

\* a file: whether it can be opened, whether it has a header line, its rows
CandidateLookup_load_from_file(L, file) ==
    IF ~file.readable THEN [L |-> L, raised |-> "IOError", ret |-> 0]
    ELSE IF ~file.header THEN [L |-> L, raised |-> "ValueError", ret |-> 0]
    ELSE cand_loaded(cand_load_rows(L, file.rows))

party_code_map ==
    [k \in { <<"d","e","m","o","c","r","a","t">>,
             <<"r","e","p","u","b","l","i","c","a","n">>,
             <<"d","e","m">>, <<"r","e","p">> } |->
        IF k[1] = "d" THEN <<"D","E","M">> ELSE <<"R","E","P">>]

\* a variant of party_tests without the table of party codes
party_tests_by_name(party_lower, candidate_party_lower, candidate_party_code) ==
    \/ Contains(party_lower, candidate_party_lower)
    \/ Contains(candidate_party_lower, party_lower)

\* the three tests of _party_matches on the lower-cased names and the code
party_tests(party_lower, candidate_party_lower, candidate_party_code) ==
    \/ Contains(party_lower, candidate_party_lower)
    \/ Contains(candidate_party_lower, party_lower)
    \/ /\ party_lower \in DOMAIN party_code_map
       /\ candidate_party_code = party_code_map[party_lower]

party_matches(candidate, party) ==
    IF party = None THEN TRUE
    ELSE party_tests(Lower(party),
                     Lower(Strip(Get(candidate, "PartyName", <<>>))),
                     Strip(Get(candidate, "PartyCode", <<>>)))

CandidateMatch(L, acct_num, method, confidence) ==
    [candidate |-> L.candidates[acct_num], match_method |-> method,
     match_confidence |-> confidence, account |-> acct_num]

\* matches.append(...); seen_accounts.add(acct_num)
TakeMatch(acc, acct_num, match) ==
    [matches |-> Append(acc.matches, match), seen |-> acc.seen \cup {acct_num}]

\* a variant of cand_scan without the test on seen_accounts
RECURSIVE cand_scan_unseen(_, _, _, _, _, _)
cand_scan_unseen(L, accts, party, method, confidence, acc) ==
    IF accts = <<>> THEN acc
    ELSE cand_scan_unseen(L, Tail(accts), party, method, confidence,
             IF party_matches(L.candidates[Head(accts)], party)
             THEN TakeMatch(acc, Head(accts),
                            CandidateMatch(L, Head(accts), method, confidence))
             ELSE acc)

\* one strategy's loop of find_by_name over the accounts under an index key:
\* acc holds matches and seen_accounts
RECURSIVE cand_scan(_, _, _, _, _, _)
cand_scan(L, accts, party, method, confidence, acc) ==
    IF accts = <<>> THEN acc
    ELSE cand_scan(L, Tail(accts), party, method, confidence,
             IF /\ Head(accts) \notin acc.seen
                /\ party_matches(L.candidates[Head(accts)], party)
             THEN TakeMatch(acc, Head(accts),
                            CandidateMatch(L, Head(accts), method, confidence))
             ELSE acc)

\* list.sort(key=match_confidence, reverse=True): stable, highest first
RECURSIVE InsertByConfidence(_, _)
InsertByConfidence(sorted, m) ==
    IF sorted = <<>> THEN <<m>>
    ELSE IF Head(sorted).match_confidence >= m.match_confidence
    THEN <<Head(sorted)>> \o InsertByConfidence(Tail(sorted), m)
    ELSE <<m>> \o sorted

RECURSIVE SortByConfidence(_)
SortByConfidence(matches) ==
    IF matches = <<>> THEN <<>>
    ELSE InsertByConfidence(SortByConfidence(SubSeq(matches, 1, Len(matches) - 1)),
                            matches[Len(matches)])

\* Strategy 1: the accounts under the exact normalized name
exact_strategy(L, normalized_search, party) ==
    cand_scan(L, Get(L.name_index, normalized_search, <<>>), party,
              "exact", ConfExact, [matches |-> <<>>, seen |-> {}])

\* Strategy 2: the accounts under (first, last), comps the parsed components
component_strategy(L, comps, party, acc) ==
    IF comps[1] # <<>> /\ comps[2] # <<>>
    THEN cand_scan(L, Get(L.component_index,
                          <<normalize_name(comps[1]), normalize_name(comps[2])>>,
                          <<>>),
                   party, "component", ConfComponent, acc)
    ELSE acc

\* the part of find_by_name after the cache check: both strategies and the sort
cand_search(L, name, normalized_search, party) ==
    SortByConfidence(
        component_strategy(L, parse_name_components(name), party,
                           exact_strategy(L, normalized_search, party)).matches)

\* index lookups of one search: the component index is read when the name
\* parses into a first and a last name
scan_count(comps) == IF comps[1] # <<>> /\ comps[2] # <<>> THEN 2 ELSE 1

\* self._lookup_cache[cache_key] = matches; return matches
cand_found(L, name, cache_key, use_cache, matches) ==
    [L |-> IF use_cache THEN [L EXCEPT !.cache = Put(@, cache_key, matches)] ELSE L,
     ret |-> matches, scans |-> scan_count(parse_name_components(name)),
     online |-> 0]

\* a variant of find_normalized without the cache check: every call searches
find_uncached(L, name, party, use_cache, normalized_search) ==
    IF name = None \/ name = <<>> \/ normalized_search = <<>>
    THEN [L |-> L, ret |-> <<>>, scans |-> 0, online |-> 0]
    ELSE cand_found(L, name, <<normalized_search, party>>, use_cache,
                    cand_search(L, name, normalized_search, party))

find_normalized(L, name, party, use_cache, normalized_search) ==
    IF name = None \/ name = <<>> \/ normalized_search = <<>>
    THEN [L |-> L, ret |-> <<>>, scans |-> 0, online |-> 0]
    ELSE IF use_cache /\ <<normalized_search, party>> \in DOMAIN L.cache
    THEN [L |-> L, ret |-> L.cache[<<normalized_search, party>>],
          scans |-> 0, online |-> 0]
    ELSE cand_found(L, name, <<normalized_search, party>>, use_cache,
                    cand_search(L, name, normalized_search, party))

\* ret: the list returned; scans: index lookups made by the call
CandidateLookup_find_by_name(L, name, party, use_cache) ==
    find_normalized(L, name, party, use_cache, normalize_name(name))

---------------------------------------------------------------------------
(* committee_lookup.py: class CommitteeLookup *)

\* the search form takes the first 50 characters: committee_name[:50]
SearchLimit == 50

Truncate(s) == SubSeq(s, 1, IF Len(s) < SearchLimit THEN Len(s) ELSE SearchLimit)

\* the strings 'candidate' and 'committee'
sCandidate == <<"c","a","n","d","i","d","a","t","e">>
sCommittee == <<"c","o","m","m","i","t","t","e","e">>

\* CommitteeLookup.__init__ with auto_load=False
NewCommitteeLookup ==
    [committees |-> <<>>, name_index |-> <<>>, total_committees |-> 0, cache |-> <<>>]

\* if normalized_lower: self.name_index[normalized_lower].append(acct_num)
index_normalized(M, acct_num, normalized_lower) ==
    IF normalized_lower # <<>>
    THEN [M EXCEPT !.name_index = IndexAppend(@, normalized_lower, acct_num)]
    ELSE M

index_committee(M, acct_num, committee_name) ==
    index_normalized(M, acct_num, normalize_committee_name(committee_name, TRUE))

\* self.committees[acct_num] = dict(row); self._index_committee(...)
comm_store_row(M, acct_num, committee_name, row) ==
    index_committee([M EXCEPT !.committees = Put(@, acct_num, row)],
                    acct_num, committee_name)

\* the loop of _load_from_file over the rows of the file
RECURSIVE comm_load_rows(_, _)
comm_load_row(M, row, acct_num, committee_name, rest) ==
    IF acct_num = <<>> THEN comm_load_rows(M, rest)
    ELSE IF Unset(row, "Committee Name") THEN LoadRaised([M |-> M])
    ELSE IF committee_name = <<>> THEN comm_load_rows(M, rest)
    ELSE CountRow(comm_load_rows(comm_store_row(M, acct_num, committee_name, row),
                                 rest))

comm_load_rows(M, rows) ==
    IF rows = <<>> THEN [M |-> M, loaded |-> 0, raised |-> ""]
    ELSE IF Unset(Head(rows), "AcctNum") THEN LoadRaised([M |-> M])
    ELSE comm_load_row(M, Head(rows), Strip(Get(Head(rows), "AcctNum", <<>>)),
                       Strip(Get(Head(rows), "Committee Name", <<>>)), Tail(rows))

\* self.total_committees += loaded; return loaded
comm_loaded(r) ==
    IF r.raised # "" THEN [M |-> r.M, raised |-> r.raised, ret |-> 0]
    ELSE [M |-> [r.M EXCEPT !.total_committees = @ + r.loaded],
          raised |-> "", ret |-> r.loaded]

CommitteeLookup_load_from_file(M, file) ==
    IF ~file.readable THEN [M |-> M, raised |-> "IOError", ret |-> 0]
    ELSE IF ~file.header THEN [M |-> M, raised |-> "ValueError", ret |-> 0]
    ELSE comm_loaded(comm_load_rows(M, file.rows))

\* a score is the fraction <<n, d>>; a > b on two of them
ScoreGreater(a, b) == a[1] * b[2] > b[1] * a[2]

ZeroScore == <<0, 1>>

\* best_match, best_name, best_score = the row's, when score > best_score
Better(best, row, score, how) ==
    IF ScoreGreater(score, best.score)
    THEN [best EXCEPT !.match = row.account, !.name = row.name,
                      !.score = score, !.how = how]
    ELSE best

\* Strategy 2 of _search_online on one row: the loop over the variants
RECURSIVE starts_with_pass(_, _, _, _)
starts_with_pass(row, normalized_found, variants, best) ==
    IF variants = <<>> THEN best
    ELSE starts_with_pass(row, normalized_found, Tail(variants),
             IF StartsWith(normalized_found, Head(variants))
             THEN Better(best, row,
                         IF normalized_found # <<>>
                         THEN <<Len(Head(variants)), Len(normalized_found)>>
                         ELSE ZeroScore,
                         "starts_with")
             ELSE best)

\* max(a, b)
Max(a, b) == IF a > b THEN a ELSE b

\* Strategy 3 on one row; dividing by max(len, len) = 0 raises
RECURSIVE contains_pass(_, _, _, _)
contains_pass(row, normalized_found, variants, best) ==
    IF variants = <<>> \/ best.raised THEN best
    ELSE contains_pass(row, normalized_found, Tail(variants),
             IF ~Contains(Head(variants), normalized_found) THEN best
             ELSE IF Max(Len(normalized_found), Len(Head(variants))) = 0
             THEN [best EXCEPT !.raised = TRUE]
             ELSE Better(best, row,
                         <<Len(Head(variants)),
                           Max(Len(normalized_found), Len(Head(variants)))>>,
                         "contains"))

\* Strategy 3 runs if best_score == 0.0 after Strategy 2
third_strategy(row, normalized_found, variants, best) ==
    IF best.score[1] = 0 THEN contains_pass(row, normalized_found, variants, best)
    ELSE best

\* the loop of _search_online over rows[1:]
RECURSIVE score_rows(_, _, _, _)
score_row(row, normalized_found, rest, normalized_search, variants, best) ==
    IF ~row.link THEN score_rows(rest, normalized_search, variants, best)
    ELSE IF normalized_found = normalized_search
    THEN [best EXCEPT !.match = row.account, !.name = row.name,
                      !.score = <<1, 1>>, !.how = "exact"]
    ELSE score_rows(rest, normalized_search, variants,
             third_strategy(row, normalized_found, variants,
                 starts_with_pass(row, normalized_found, variants, best)))

score_rows(rows, normalized_search, variants, best) ==
    IF rows = <<>> \/ best.raised THEN best
    ELSE score_row(Head(rows), normalize_committee_name(Head(rows).name, TRUE),
                   Tail(rows), normalized_search, variants, best)

NoDetails == [found |-> FALSE]

\* committee_data, of the keys that the merge and the back-fill read
committee_data(committee_name, best, details) ==
    [k \in {"AcctNum", "Committee Name", "Name", "Type", "Status"} |->
       CASE k = "AcctNum" -> best.match
         [] k = "Committee Name" -> Or(best.name, committee_name)
         [] k = "Name" -> Or(best.name, committee_name)
         [] k = "Type" -> Get(details, "type", <<>>)
         [] k = "Status" -> Get(details, "status", <<>>)]

\* the part of _search_online after the loop over the rows
online_match(committee_name, best, details) ==
    IF best.raised \/ best.match = <<>> THEN <<>>
    ELSE IF ~details.found THEN <<>>
    ELSE << [committee |-> committee_data(committee_name, best, details),
             match_method |-> "online_fallback",
             match_confidence |-> ConfOnline, account |-> best.match,
             entity_type |-> sCommittee] >>

\* a variant of search_online that scores the rows of any page
search_online_any_page(committee_name, web) ==
    IF web.search.status # "ok" \/ web.search.rows = <<>> THEN <<>>
    ELSE online_match(committee_name,
             score_rows(Tail(web.search.rows),
                        normalize_committee_name(committee_name, TRUE),
                        get_search_variants(Truncate(committee_name)),
                        [match |-> <<>>, name |-> <<>>, score |-> ZeroScore,
                         how |-> "none", raised |-> FALSE]),
             web.details)

\* web.search is the portal's answer to the search request: status ("ok" or
\* "error"), the number of tables of the page, the rows of its third table;
\* web.details is the answer of the detail page of the chosen account.
\* The result is <<>> for None and <<match>> otherwise.
search_online(committee_name, web) ==
    IF web.search.status # "ok" THEN <<>>
    ELSE IF web.search.tables < 3 \/ Len(web.search.rows) < 2 THEN <<>>
    ELSE online_match(committee_name,
             score_rows(Tail(web.search.rows),
                        normalize_committee_name(committee_name, TRUE),
                        get_search_variants(Truncate(committee_name)),
                        [match |-> <<>>, name |-> <<>>, score |-> ZeroScore,
                         how |-> "none", raised |-> FALSE]),
             web.details)

\* the exact-match loop of find_by_name over the accounts under the key
RECURSIVE comm_scan(_, _, _)
comm_scan(M, accts, acc) ==
    IF accts = <<>> THEN acc
    ELSE comm_scan(M, Tail(accts),
             IF Head(accts) \notin acc.seen
             THEN TakeMatch(acc, Head(accts),
                      [committee |-> M.committees[Head(accts)],
                       match_method |-> "exact",
                       match_confidence |-> ConfExact,
                       account |-> Head(accts),
                       entity_type |-> sCommittee])
             ELSE acc)

\* the back-fill of find_by_name after a successful online search
comm_backfill(M, name, found) ==
    IF found.account \in DOMAIN M.committees THEN M
    ELSE [index_committee(
              [M EXCEPT !.committees = Put(@, found.account, found.committee)],
              found.account,
              Or(Get(found.committee, "Committee Name", None),
                 Or(Get(found.committee, "Name", None), name)))
            EXCEPT !.total_committees = @ + 1]

\* matches.append(online_match), the back-fill, the cache write and the return
comm_found(M, name, normalized_search, use_cache, offline, goes_online, found) ==
    [M |-> [(IF found # <<>> THEN comm_backfill(M, name, found[1]) ELSE M)
              EXCEPT !.cache = IF use_cache
                               THEN Put(@, normalized_search, offline \o found)
                               ELSE @],
     ret |-> offline \o found, scans |-> 1,
     online |-> IF goes_online THEN 1 ELSE 0]

\* a variant of comm_fallback that searches online whenever fallback_search
\* is set, whatever the index returned
comm_fallback_always(M, name, normalized_search, use_cache, fallback_search, web, offline) ==
    comm_found(M, name, normalized_search, use_cache, offline, fallback_search,
               IF fallback_search THEN search_online(name, web) ELSE <<>>)

\* the fallback: if not matches and fallback_search
comm_fallback(M, name, normalized_search, use_cache, fallback_search, web, offline) ==
    comm_found(M, name, normalized_search, use_cache, offline,
               offline = <<>> /\ fallback_search,
               IF offline = <<>> /\ fallback_search
               THEN search_online(name, web) ELSE <<>>)

\* a variant of comm_find_normalized without the two early returns
comm_find_any(M, name, use_cache, fallback_search, web, normalized_search) ==
    IF use_cache /\ normalized_search \in DOMAIN M.cache
    THEN [M |-> M, ret |-> M.cache[normalized_search], scans |-> 0, online |-> 0]
    ELSE comm_fallback(M, name, normalized_search, use_cache, fallback_search, web,
             comm_scan(M, Get(M.name_index, normalized_search, <<>>),
                       [matches |-> <<>>, seen |-> {}]).matches)

comm_find_normalized(M, name, use_cache, fallback_search, web, normalized_search) ==
    IF name = None \/ name = <<>> \/ normalized_search = <<>>
    THEN [M |-> M, ret |-> <<>>, scans |-> 0, online |-> 0]
    ELSE IF use_cache /\ normalized_search \in DOMAIN M.cache
    THEN [M |-> M, ret |-> M.cache[normalized_search], scans |-> 0, online |-> 0]
    ELSE comm_fallback(M, name, normalized_search, use_cache, fallback_search, web,
             comm_scan(M, Get(M.name_index, normalized_search, <<>>),
                       [matches |-> <<>>, seen |-> {}]).matches)

\* ret: the list returned; scans: index lookups; online: search requests sent
CommitteeLookup_find_by_name(M, name, use_cache, fallback_search, web) ==
    comm_find_normalized(M, name, use_cache, fallback_search, web,
                         normalize_committee_name(name, TRUE))

---------------------------------------------------------------------------
(* candidate_lookup.py: CandidateLookup.merge_with_transactions *)

EntityFields ==
    {"entity_type", "entity_account", "entity_name", "entity_name_first",
     "entity_name_last", "entity_name_middle", "entity_election_id",
     "entity_office", "entity_status", "entity_party", "entity_email",
     "entity_phone", "entity_type_detail"}

\* the (name, party) of a transaction
tx_name(transaction, name_field) == Get(transaction, name_field, <<>>)
\* (a field name is a string; "" stands for no party_field)
tx_party(transaction, party_field) ==
    IF party_field # "" THEN Get(transaction, party_field, None) ELSE None

\* if key not in name_groups: name_groups[key] = []
add_key(before, name, key) ==
    IF name = <<>> \/ name = None THEN before
    ELSE IF \E i \in 1..Len(before) : before[i] = key THEN before
    ELSE Append(before, key)

\* the keys of name_groups in insertion order: each (name, party) at the
\* place of its first transaction
RECURSIVE group_keys(_, _, _)
group_keys(transactions, name_field, party_field) ==
    IF transactions = <<>> THEN <<>>
    ELSE add_key(group_keys(SubSeq(transactions, 1, Len(transactions) - 1),
                            name_field, party_field),
                 tx_name(transactions[Len(transactions)], name_field),
                 <<tx_name(transactions[Len(transactions)], name_field),
                   tx_party(transactions[Len(transactions)], party_field)>>)

\* name_groups[key]: the indices of the transactions of a key
group_indices(transactions, name_field, party_field, key) ==
    { i \in 1..Len(transactions) :
        /\ tx_name(transactions[i], name_field) = key[1]
        /\ tx_party(transactions[i], party_field) = key[2] }

\* empty_name_indices
empty_name_indices(transactions, name_field) ==
    { i \in 1..Len(transactions) :
        tx_name(transactions[i], name_field) \in {<<>>, None} }

\* the thirteen fields written for a match on a candidate
candidate_fields(best_match, entity) ==
    [k \in EntityFields |->
       CASE k = "entity_type" -> Get(best_match, "entity_type", sCandidate)
         [] k = "entity_account" -> best_match.account
         [] k = "entity_name" ->
                build_full_name(Get(entity, "NameFirst", <<>>),
                                Get(entity, "NameLast", <<>>),
                                Get(entity, "NameMiddle", <<>>))
         [] k = "entity_name_first" -> Get(entity, "NameFirst", <<>>)
         [] k = "entity_name_last" -> Get(entity, "NameLast", <<>>)
         [] k = "entity_name_middle" -> Get(entity, "NameMiddle", <<>>)
         [] k = "entity_election_id" -> Get(entity, "ElectionID", <<>>)
         [] k = "entity_office" -> Get(entity, "OfficeDesc", <<>>)
         [] k = "entity_status" -> Get(entity, "StatusDesc", <<>>)
         [] k = "entity_party" -> Get(entity, "PartyName", <<>>)
         [] k = "entity_email" -> Get(entity, "Email", <<>>)
         [] k = "entity_phone" -> Get(entity, "Phone", <<>>)
         [] k = "entity_type_detail" -> sCandidate]

\* the thirteen fields written for a match on a committee
committee_fields(best_match, entity) ==
    [k \in EntityFields |->
       CASE k = "entity_type" -> Get(best_match, "entity_type", sCandidate)
         [] k = "entity_account" -> best_match.account
         [] k = "entity_name" ->
                Or(Get(entity, "Committee Name", <<>>),
                   Or(Get(entity, "CommitteeName", <<>>),
                      Or(Get(entity, "Name", <<>>), Get(entity, "ComName", <<>>))))
         [] k = "entity_status" ->
                Or(Get(entity, "Status", <<>>), Get(entity, "Committee Status", <<>>))
         [] k = "entity_type_detail" ->
                Or(Get(entity, "Type", <<>>), Get(entity, "Committee Type", <<>>))
         [] OTHER -> None]

\* a variant of unmatched_fields that forgets entity_type_detail
unmatched_fields_partial ==
    [k \in EntityFields \ {"entity_type_detail"} |-> None]

\* the thirteen fields written when nothing matched
unmatched_fields == [k \in EntityFields |-> None]

\* a variant of enriched_transaction that starts from an empty dict instead of
\* dict(transaction)
enriched_fields_only(transaction, fields) == fields

\* dict(transaction) with the entity fields assigned
enriched_transaction(transaction, fields) ==
    [k \in DOMAIN transaction \cup DOMAIN fields |->
       IF k \in DOMAIN fields THEN fields[k] ELSE transaction[k]]

\* a variant of input_after for enriched_transaction = transaction (no copy):
\* the assignments land in the caller's record
input_aliased(transaction, enriched) == enriched

\* transactions[idx] after the assignments to enriched_transaction: the
\* assignments go to the copy dict(transaction), so the record is as it was
input_after(transaction, enriched) == transaction

\* the branch on best_match, entity and entity_type
match_fields(best_match, entity) ==
    IF DOMAIN entity = {} THEN unmatched_fields
    ELSE IF Get(best_match, "entity_type", sCandidate) = sCandidate
    THEN candidate_fields(best_match, entity)
    ELSE committee_fields(best_match, entity)

\* the fields of one group, from what the two lookups returned: best_match is
\* the first candidate match, else the first committee match, else None
group_fields(candidate_matches, committee_matches) ==
    IF candidate_matches # <<>>
    THEN match_fields(candidate_matches[1], candidate_matches[1].candidate)
    ELSE IF committee_matches # <<>>
    THEN match_fields(committee_matches[1], committee_matches[1].committee)
    ELSE unmatched_fields

\* the loop over indices: enriched[idx] = enriched_transaction.  st holds the
\* two lookups, the enriched list (index -> record), the input list and a log
\* with one entry per group: the key, what each lookup returned, the online
\* searches sent
group_done(st, key, indices, c, m, asks, fields) ==
    [L |-> c.L, M |-> m.M,
     enriched |-> [i \in DOMAIN st.enriched \cup indices |->
                     IF i \in indices
                     THEN enriched_transaction(st.inputs[i], fields)
                     ELSE st.enriched[i]],
     inputs |-> [i \in DOMAIN st.inputs |->
                   IF i \in indices
                   THEN input_after(st.inputs[i],
                                    enriched_transaction(st.inputs[i], fields))
                   ELSE st.inputs[i]],
     log |-> Append(st.log,
                [key |-> key, indices |-> indices,
                 candidate_matches |-> c.ret, committee_asked |-> asks,
                 committee_matches |-> m.ret, online |-> m.online])]

\* best_match and entity of the group, from the two lists of matches
group_matched(st, key, indices, c, m, asks) ==
    group_done(st, key, indices, c, m, asks, group_fields(c.ret, m.ret))

\* a variant of ask_committee that asks the committee lookup whenever one is
\* supplied and prefers its answer
ask_committee_always(st, key, indices, committee_lookup, use_cache, webs, c) ==
    group_done(st, key, indices, c,
               IF committee_lookup
               THEN CommitteeLookup_find_by_name(st.M, key[1], use_cache, TRUE,
                                                 webs[key[1]])
               ELSE [M |-> st.M, ret |-> <<>>, scans |-> 0, online |-> 0],
               committee_lookup,
               group_fields(IF committee_lookup THEN <<>> ELSE c.ret,
                            IF committee_lookup
                            THEN CommitteeLookup_find_by_name(st.M, key[1], use_cache,
                                     TRUE, webs[key[1]]).ret
                            ELSE <<>>))

\* if not candidate_matches and committee_lookup: committee_lookup.find_by_name
ask_committee(st, key, indices, committee_lookup, use_cache, webs, c) ==
    group_matched(st, key, indices, c,
                  IF c.ret = <<>> /\ committee_lookup
                  THEN CommitteeLookup_find_by_name(st.M, key[1], use_cache, TRUE,
                                                    webs[key[1]])
                  ELSE [M |-> st.M, ret |-> <<>>, scans |-> 0, online |-> 0],
                  c.ret = <<>> /\ committee_lookup)

\* one round of the loop over name_groups.items()
merge_group(st, key, indices, committee_lookup, use_cache, webs) ==
    ask_committee(st, key, indices, committee_lookup, use_cache, webs,
                  CandidateLookup_find_by_name(st.L, key[1], key[2], use_cache))

\* the loop over name_groups; groups is the list of <<key, indices>>, webs
\* gives the portal's answer for each name
RECURSIVE merge_groups(_, _, _, _, _)
merge_groups(st, groups, committee_lookup, use_cache, webs) ==
    IF groups = <<>> THEN st
    ELSE merge_groups(merge_group(st, Head(groups)[1], Head(groups)[2],
                                  committee_lookup, use_cache, webs),
                      Tail(groups), committee_lookup, use_cache, webs)

\* name_groups.items()
groups_of(transactions, name_field, party_field, keys) ==
    [g \in 1..Len(keys) |->
       <<keys[g], group_indices(transactions, name_field, party_field, keys[g])>>]

name_groups(transactions, name_field, party_field) ==
    groups_of(transactions, name_field, party_field,
              group_keys(transactions, name_field, party_field))

\* the loop over empty_name_indices, after the loop over the groups
merge_empties(st, transactions, empties) ==
    [L |-> st.L, M |-> st.M,
     ret |-> [i \in 1..Len(transactions) |->
                IF i \in empties
                THEN enriched_transaction(st.inputs[i], unmatched_fields)
                ELSE st.enriched[i]],
     inputs |-> [i \in 1..Len(transactions) |->
                   IF i \in empties
                   THEN input_after(st.inputs[i],
                            enriched_transaction(st.inputs[i], unmatched_fields))
                   ELSE st.inputs[i]],
     log |-> st.log]

\* the two loops of merge_with_transactions
merge_loops(L, M, transactions, name_field, groups, committee_lookup, use_cache, webs) ==
    merge_empties(merge_groups([L |-> L, M |-> M, enriched |-> <<>>,
                                inputs |-> transactions, log |-> <<>>],
                               groups, committee_lookup, use_cache, webs),
                  transactions, empty_name_indices(transactions, name_field))

\* a variant of merge_with_transactions that looks every transaction up on
\* its own, without grouping and without the lookups' caches
merge_each_transaction(L, M, transactions, name_field, party_field, committee_lookup, webs) ==
    IF Len(transactions) = 0
    THEN [L |-> L, M |-> M, ret |-> <<>>, inputs |-> transactions, log |-> <<>>]
    ELSE merge_loops(L, M, transactions, name_field,
                     SelectSeq([i \in 1..Len(transactions) |->
                                  << <<tx_name(transactions[i], name_field),
                                       tx_party(transactions[i], party_field)>>,
                                     {i} >>],
                               LAMBDA g : g[1][1] # <<>> /\ g[1][1] # None),
                     committee_lookup, FALSE, webs)

\* ret: the enriched list; inputs: the list passed in, as it is after the
\* call; log: the lookups made, group by group
merge_with_transactions(L, M, transactions, name_field, party_field, committee_lookup, webs) ==
    IF Len(transactions) = 0
    THEN [L |-> L, M |-> M, ret |-> <<>>, inputs |-> transactions, log |-> <<>>]
    ELSE merge_loops(L, M, transactions, name_field,
                     name_groups(transactions, name_field, party_field),
                     committee_lookup, TRUE, webs)

---------------------------------------------------------------------------
(* The rosters, queries, portal answers and transactions the runs draw from *)

sAl == <<"A","l">>
sRoe == <<"R","o","e">>
sRoeAl == <<"R","o","e",","," ","A","l">>
sAlRoe == <<"A","l"," ","R","o","e">>
sRepublican == <<"R","e","p","u","b","l","i","c","a","n">>
sDemocrat == <<"D","e","m","o","c","r","a","t">>
sSunPAC == <<"S","u","n"," ","P","A","C">>
sBay == <<"B","a","y">>
sBayFund == <<"B","a","y"," ","F","u","n","d">>

CandidateRow(acct, first, last, party, code, election) ==
    [k \in {"AcctNum", "NameFirst", "NameLast", "NameMiddle", "PartyName",
            "PartyCode", "ElectionID", "StatusDesc"} |->
       CASE k = "AcctNum" -> acct
         [] k = "NameFirst" -> first
         [] k = "NameLast" -> last
         [] k = "NameMiddle" -> <<>>
         [] k = "PartyName" -> party
         [] k = "PartyCode" -> code
         [] k = "ElectionID" -> election
         [] k = "StatusDesc" -> <<"A">>]

rowRoe20 == CandidateRow(<<"1">>, sAl, sRoe, sRepublican, <<"R","E","P">>, <<"2","0">>)
rowRoe22 == CandidateRow(<<"1">>, sAl, sRoe, sRepublican, <<"R","E","P">>, <<"2","2">>)
rowRoeDem == CandidateRow(<<"2">>, sAl, sRoe, sDemocrat, <<"D","E","M">>, <<"2","2">>)
rowNoAcct == CandidateRow(<<" ">>, sAl, sRoe, sDemocrat, <<"D","E","M">>, <<"2","2">>)

File(rows) == [readable |-> TRUE, header |-> TRUE, rows |-> rows]
NoHeaderFile == [readable |-> TRUE, header |-> FALSE, rows |-> <<>>]

CandidateFiles == { File(<<rowRoe20>>), File(<<rowRoe22, rowRoeDem>>),
                    File(<<rowNoAcct>>), NoHeaderFile }

CommitteeRow(acct, name) ==
    [k \in {"AcctNum", "Committee Name", "Type", "Status"} |->
       CASE k = "AcctNum" -> acct
         [] k = "Committee Name" -> name
         [] k = "Type" -> <<"P","A","C">>
         [] k = "Status" -> <<"A">>]

rowSun == CommitteeRow(<<"7">>, sSunPAC)
rowSunAgain == CommitteeRow(<<"7">>, <<"S","U","N">>)
rowNoName == CommitteeRow(<<"8">>, <<" ">>)

CommitteeFiles == { File(<<rowSun>>), File(<<rowNoName, rowSunAgain>>) }

\* the rows of the result table: the header row, then one row per committee
HeaderRow == [link |-> FALSE, name |-> <<>>, account |-> <<>>]
ResultRow(name, acct) == [link |-> TRUE, name |-> name, account |-> acct]
Page(rows) == [status |-> "ok", tables |-> 3, rows |-> rows]
Details == [found |-> TRUE, type |-> <<"P","A","C">>, status |-> <<"A">>]

WebDown == [search |-> [status |-> "error", tables |-> 0, rows |-> <<>>],
            details |-> NoDetails]
WebEmpty == [search |-> Page(<<HeaderRow>>), details |-> NoDetails]
WebHit == [search |-> Page(<<HeaderRow, ResultRow(sBayFund, <<"8">>)>>),
           details |-> Details]
WebSun == [search |-> Page(<<HeaderRow, ResultRow(sSunPAC, <<"7">>)>>),
           details |-> Details]

Webs == {WebDown, WebEmpty, WebHit, WebSun}

CandidateQueries == {sRoeAl, sAlRoe}
Parties == {None, sDemocrat}
CommitteeQueries == {sSunPAC, sBay}

Transaction(recipient, party, amount) ==
    [k \in {"recipient", "recipient_party", "amount"} |->
       CASE k = "recipient" -> recipient
         [] k = "recipient_party" -> party
         [] k = "amount" -> amount]

Transactions ==
    { Transaction(sRoeAl, sRepublican, <<"1">>),
      Transaction(sRoeAl, sDemocrat, <<"2">>),
      Transaction(sBay, <<>>, <<"3">>),
      Transaction(sSunPAC, <<>>, <<"4">>),
      Transaction(<<>>, <<>>, <<"5">>) }

TransactionLists == UNION { [1..n -> Transactions] : n \in 0..MaxTx }

\* every string of at most n characters of the alphabet A
StringsUpTo(A, n) == UNION { [1..k -> A] : k \in 0..n }

NameAlphabet == {"a", " ", ",", "(", ")", "V"}
CommitteeAlphabet == {"a", " ", "P", "C"}

---------------------------------------------------------------------------
(* The state machine *)

NoCall == [op |-> "init", name |-> <<>>, party |-> None, use_cache |-> FALSE,
           fallback_search |-> FALSE, arg |-> <<>>]
NoTrace == [raised |-> "", scans |-> 0, online |-> 0, inputs |-> <<>>, log |-> <<>>]

\* the attributes of the two lookup objects as the records the methods take
TheCandidateLookup ==
    [candidates |-> candidates, name_index |-> cand_name_index,
     lastname_index |-> lastname_index, component_index |-> component_index,
     total_candidates |-> total_candidates, cache |-> cand_cache]
TheCommitteeLookup ==
    [committees |-> committees, name_index |-> comm_name_index,
     total_committees |-> total_committees, cache |-> comm_cache]

SetCandidateLookup(L) ==
    /\ candidates' = L.candidates
    /\ cand_name_index' = L.name_index
    /\ lastname_index' = L.lastname_index
    /\ component_index' = L.component_index
    /\ total_candidates' = L.total_candidates
    /\ cand_cache' = L.cache
SetCommitteeLookup(M) ==
    /\ committees' = M.committees
    /\ comm_name_index' = M.name_index
    /\ total_committees' = M.total_committees
    /\ comm_cache' = M.cache

candVars == <<candidates, cand_name_index, lastname_index, component_index,
              total_candidates, cand_cache>>
commVars == <<committees, comm_name_index, total_committees, comm_cache>>

InitLookups(L, M) ==
    /\ candidates = L.candidates
    /\ cand_name_index = L.name_index
    /\ lastname_index = L.lastname_index
    /\ component_index = L.component_index
    /\ total_candidates = L.total_candidates
    /\ cand_cache = L.cache
    /\ committees = M.committees
    /\ comm_name_index = M.name_index
    /\ total_committees = M.total_committees
    /\ comm_cache = M.cache

\* the payload class attribute of ContributionScraper
ContributionPayload ==
    [k \in {"election", "office", "party", "committee"} |-> "All"]
    @@ [k \in {"CanFName", "CanLName", "cdistrict", "cgroup", "ComName",
               "cfname", "clname", "ccity", "cstate", "czipcode",
               "coccupation", "cdollar_minimum", "cdollar_maximum",
               "rowlimit"} |-> ""]
    @@ [k \in {"CanNameSrch", "ComNameSrch", "namesearch", "queryformat"} |-> 2]
    @@ [k \in {"search_on"} |-> 1]
    @@ [k \in {"csort1"} |-> "NAM"] @@ [k \in {"csort2"} |-> "CAN"]

\* the payload class attribute of ExpenditureScraper and of TransferScraper
ExpenditurePayload ==
    [k \in {"election", "office", "party", "committee"} |-> "All"]
    @@ [k \in {"CanFName", "CanLName", "cdistrict", "cgroup", "ComName",
               "cfname", "clname", "ccity", "ccstate", "czipcode",
               "cpurpose", "cdollar_minimum", "cdollar_maximum",
               "rowlimit", "cdatefrom", "cdateto"} |-> ""]
    @@ [k \in {"CanNameSrch", "ComNameSrch", "namesearch", "queryformat"} |-> 2]
    @@ [k \in {"search_on"} |-> 1]
    @@ [k \in {"csort1"} |-> "DAT"] @@ [k \in {"csort2"} |-> "CAN"]

TransferPayload == ExpenditurePayload

ScraperClasses == {"ContributionScraper", "ExpenditureScraper", "TransferScraper"}

\* the class attributes as the module import leaves them
ClassPayload ==
    [cls \in ScraperClasses |->
        CASE cls = "ContributionScraper" -> ContributionPayload
          [] cls = "ExpenditureScraper" -> ExpenditurePayload
          [] OTHER -> TransferPayload]

\* CandidateLookup(auto_load=False) and CommitteeLookup(auto_load=False)
Init ==
    /\ InitLookups(NewCandidateLookup, NewCommitteeLookup)
    /\ call = NoCall /\ ret = <<>> /\ trace = NoTrace
    /\ fn_in = <<>> /\ fn_out = <<>>
    /\ payload = ClassPayload
    /\ steps = 0

\* the state after a call on the candidate lookup that returned r
CandidateCallDone(r, the_call, the_trace) ==
    /\ SetCandidateLookup(r.L)
    /\ call' = the_call
    /\ ret' = r.ret
    /\ trace' = the_trace
    /\ steps' = steps + 1
    /\ UNCHANGED <<commVars, fnVars, payload>>

\* the state after a call on the committee lookup that returned r
CommitteeCallDone(r, the_call, the_trace) ==
    /\ SetCommitteeLookup(r.M)
    /\ call' = the_call
    /\ ret' = r.ret
    /\ trace' = the_trace
    /\ steps' = steps + 1
    /\ UNCHANGED <<candVars, fnVars, payload>>

LoadTrace(r) == [NoTrace EXCEPT !.raised = r.raised]
FindTrace(r) == [NoTrace EXCEPT !.scans = r.scans, !.online = r.online]

LoadCandidatesDone(file, r) ==
    CandidateCallDone(r, [NoCall EXCEPT !.op = "load_candidates", !.arg = file],
                      LoadTrace(r))

\* candidate_lookup._load_from_file(file)
LoadCandidates(file) ==
    /\ steps < MaxSteps
    /\ LoadCandidatesDone(file,
           CandidateLookup_load_from_file(TheCandidateLookup, file))

LoadCommitteesDone(file, r) ==
    CommitteeCallDone(r, [NoCall EXCEPT !.op = "load_committees", !.arg = file],
                      LoadTrace(r))

\* committee_lookup._load_from_file(file)
LoadCommittees(file) ==
    /\ steps < MaxSteps
    /\ LoadCommitteesDone(file,
           CommitteeLookup_load_from_file(TheCommitteeLookup, file))

FindCandidateDone(name, party, use_cache, r) ==
    CandidateCallDone(r, [NoCall EXCEPT !.op = "find_candidate", !.name = name,
                                        !.party = party, !.use_cache = use_cache],
                      FindTrace(r))

\* candidate_lookup.find_by_name(name, party, use_cache)
FindCandidate(name, party, use_cache) ==
    /\ steps < MaxSteps
    /\ FindCandidateDone(name, party, use_cache,
           CandidateLookup_find_by_name(TheCandidateLookup, name, party, use_cache))

FindCommitteeDone(name, use_cache, fallback_search, web, r) ==
    CommitteeCallDone(r, [NoCall EXCEPT !.op = "find_committee", !.name = name,
                                        !.use_cache = use_cache,
                                        !.fallback_search = fallback_search,
                                        !.arg = web],
                      FindTrace(r))

\* committee_lookup.find_by_name(name, use_cache, fallback_search), the portal
\* answering web to the requests of the call
FindCommittee(name, use_cache, fallback_search, web) ==
    /\ steps < MaxSteps
    /\ FindCommitteeDone(name, use_cache, fallback_search, web,
           CommitteeLookup_find_by_name(TheCommitteeLookup, name, use_cache,
                                        fallback_search, web))

Next ==
    \/ \E file \in CandidateFiles : LoadCandidates(file)
    \/ \E file \in CommitteeFiles : LoadCommittees(file)
    \/ \E name \in CandidateQueries, party \in Parties, use_cache \in BOOLEAN :
          FindCandidate(name, party, use_cache)
    \/ \E name \in CommitteeQueries, use_cache \in BOOLEAN :
          \/ FindCommittee(name, use_cache, FALSE, WebDown)
          \/ \E web \in Webs : FindCommittee(name, use_cache, TRUE, web)

Spec == Init /\ [][Next]_vars

---------------------------------------------------------------------------
(* Enrichment: the lookups as ContributionScraper builds them, loaded from  *)
(* the downloaded rosters, then one merge_with_transactions call            *)

LoadedCandidateLookup(file) ==
    CandidateLookup_load_from_file(NewCandidateLookup, file).L
LoadedCommitteeLookup(file) ==
    CommitteeLookup_load_from_file(NewCommitteeLookup, file).M

MergeInit ==
    /\ \E cfile \in {File(<<rowRoe20>>), File(<<rowRoe22, rowRoeDem>>)},
          mfile \in {File(<<rowSun>>), File(<<rowNoName>>)} :
          InitLookups(LoadedCandidateLookup(cfile), LoadedCommitteeLookup(mfile))
    /\ call = NoCall /\ ret = <<>> /\ trace = NoTrace
    /\ fn_in = <<>> /\ fn_out = <<>>
    /\ payload = ClassPayload
    /\ steps = 0

MergeDone(transactions, committee_lookup, r) ==
    /\ SetCandidateLookup(r.L)
    /\ SetCommitteeLookup(r.M)
    /\ call' = [NoCall EXCEPT !.op = "merge", !.arg = transactions,
                              !.fallback_search = committee_lookup]
    /\ ret' = r.ret
    /\ trace' = [NoTrace EXCEPT !.inputs = r.inputs, !.log = r.log]
    /\ steps' = steps + 1
    /\ UNCHANGED <<fnVars, payload>>

\* candidate_lookup.merge_with_transactions(transactions, 'recipient',
\* 'recipient_party', committee_lookup); webs: the portal's answers by name
Merge(transactions, committee_lookup, webs) ==
    /\ call.op = "init"
    /\ MergeDone(transactions, committee_lookup,
           merge_with_transactions(TheCandidateLookup, TheCommitteeLookup,
               transactions, "recipient", "recipient_party",
               committee_lookup, webs))

MergeNext ==
    \E transactions \in TransactionLists, committee_lookup \in BOOLEAN,
       wBay \in {WebDown, WebHit}, wOther \in {WebDown, WebSun} :
       Merge(transactions, committee_lookup,
             [n \in {sRoeAl, sBay, sSunPAC} |-> IF n = sBay THEN wBay ELSE wOther])

SpecMerge == MergeInit /\ [][MergeNext]_vars

---------------------------------------------------------------------------
(* The normalizers on every short name *)

NormInit ==
    /\ InitLookups(NewCandidateLookup, NewCommitteeLookup)
    /\ call = NoCall /\ ret = <<>> /\ trace = NoTrace
    /\ fn_in \in StringsUpTo(NameAlphabet, MaxLen)
                    \cup StringsUpTo(CommitteeAlphabet, MaxCommLen)
    /\ fn_out = <<>>
    /\ payload = ClassPayload
    /\ steps = 0

ApplyNormalizeName ==
    /\ call.op = "init"
    /\ fn_out' = normalize_name(fn_in)
    /\ call' = [NoCall EXCEPT !.op = "normalize_name"]
    /\ UNCHANGED <<lookupVars, ret, trace, fn_in, payload, steps>>

ApplyNormalizeCommitteeName(lowercase) ==
    /\ call.op = "init"
    /\ fn_out' = normalize_committee_name(fn_in, lowercase)
    /\ call' = [NoCall EXCEPT !.op = "normalize_committee_name",
                              !.use_cache = lowercase]
    /\ UNCHANGED <<lookupVars, ret, trace, fn_in, payload, steps>>

NormNext ==
    \/ ApplyNormalizeName
    \/ \E lowercase \in BOOLEAN : ApplyNormalizeCommitteeName(lowercase)

SpecNorm == NormInit /\ [][NormNext]_vars

---------------------------------------------------------------------------
(* Properties of merge_with_transactions, checked under SpecMerge *)

\* the transaction at position i of the merge belongs to no group that matched
Unmatched(i) ==
    \A g \in 1..Len(trace.log) :
        i \in trace.log[g].indices =>
            /\ trace.log[g].candidate_matches = <<>>
            /\ trace.log[g].committee_matches = <<>>

\* C1: merge_with_transactions returns a list as long as its input, and the
\* record at each position carries every field of the input record at that
\* position with the same value, plus the enrichment fields.
C1_SameLengthSameFields ==
    call.op = "merge" =>
        /\ Len(ret) = Len(call.arg)
        /\ \A i \in 1..Len(call.arg) :
              /\ \A k \in DOMAIN call.arg[i] :
                    k \in DOMAIN ret[i] /\ ret[i][k] = call.arg[i][k]
              /\ EntityFields \subseteq DOMAIN ret[i]
              /\ DOMAIN ret[i] = DOMAIN call.arg[i] \cup EntityFields

\* a merge of three transactions: one matched to a candidate, one named but
\* unmatched, one with an empty name
C1_Witness ==
    /\ call.op = "merge"
    /\ Len(ret) = 3
    /\ \E i \in 1..Len(ret) : ret[i]["entity_type"] = sCandidate
    /\ \E j \in 1..Len(ret) :
          ret[j]["recipient"] # <<>> /\ ret[j]["entity_type"] = None
    /\ \E k \in 1..Len(ret) : ret[k]["recipient"] = <<>>

\* C2: every record merge_with_transactions returns has all 13 entity fields,
\* and a record of a transaction that matched nothing (or had no name) has
\* None in every one of them.
C2_AllEntityFields ==
    /\ Cardinality(EntityFields) = 13
    /\ call.op = "merge" =>
          \A i \in 1..Len(ret) :
              /\ EntityFields \subseteq DOMAIN ret[i]
              /\ Unmatched(i) => \A k \in EntityFields : ret[i][k] = None

\* a merge with a committee match, a named transaction that matched nothing
\* although the committee lookup was asked, and a transaction without a name
C2_Witness ==
    /\ call.op = "merge"
    /\ \E i \in 1..Len(ret) : ret[i]["entity_type"] = sCommittee
    /\ \E j \in 1..Len(ret) :
          /\ ret[j]["recipient"] # <<>>
          /\ Unmatched(j)
          /\ \E g \in 1..Len(trace.log) :
                j \in trace.log[g].indices /\ trace.log[g].committee_asked
    /\ \E k \in 1..Len(ret) : ret[k]["recipient"] = <<>> /\ Unmatched(k)

\* C3: after merge_with_transactions the input list and every record of it
\* are as they were passed in; no entity field is added to an input record.
C3_InputUnchanged ==
    call.op = "merge" => trace.inputs = call.arg

\* a merge that wrote entity fields of a match into a returned record while the
\* input record at that position has none
C3_Witness ==
    /\ call.op = "merge"
    /\ Len(call.arg) >= 2
    /\ \E i \in 1..Len(ret) :
          /\ ret[i]["entity_account"] # None
          /\ "entity_account" \notin DOMAIN trace.inputs[i]

\* the normalized names the committee lookup was asked for during the merge
AskedCommitteeKeys ==
    { normalize_committee_name(trace.log[g].key[1], TRUE) :
        g \in { h \in 1..Len(trace.log) : trace.log[h].candidate_matches = <<>> } }

\* C4: for each (name, party) key the first candidate match is used when there
\* is one; the committee lookup is asked only when the candidate lookup
\* returned nothing and a committee lookup was supplied, and then its first
\* match is used; otherwise the transactions of the key are unmatched.
C4_CandidateFirst ==
    call.op = "merge" =>
        /\ \A g \in 1..Len(trace.log) :
              /\ trace.log[g].committee_asked <=>
                    (trace.log[g].candidate_matches = <<>> /\ call.fallback_search)
              /\ ~trace.log[g].committee_asked =>
                    trace.log[g].committee_matches = <<>>
              /\ \A i \in trace.log[g].indices :
                    IF trace.log[g].candidate_matches # <<>>
                    THEN /\ ret[i]["entity_type"] = sCandidate
                         /\ ret[i]["entity_account"] =
                               trace.log[g].candidate_matches[1].account
                    ELSE IF trace.log[g].committee_matches # <<>>
                    THEN /\ ret[i]["entity_type"] = sCommittee
                         /\ ret[i]["entity_account"] =
                               trace.log[g].committee_matches[1].account
                    ELSE ret[i]["entity_account"] = None
        /\ DOMAIN comm_cache =
              IF call.fallback_search THEN AskedCommitteeKeys ELSE {}

\* a merge with a committee lookup supplied in which one key matched a
\* candidate and another, without candidate match, matched a committee
C4_Witness ==
    /\ call.op = "merge"
    /\ call.fallback_search
    /\ \E g, h \in 1..Len(trace.log) :
          /\ trace.log[g].candidate_matches # <<>>
          /\ ~trace.log[g].committee_asked
          /\ trace.log[h].committee_asked
          /\ trace.log[h].committee_matches # <<>>

\* the online searches the merge sent for a (name, party) key
RECURSIVE OnlineRequests(_, _)
OnlineRequests(log, key) ==
    IF log = <<>> THEN 0
    ELSE (IF Head(log).key = key THEN Head(log).online ELSE 0)
         + OnlineRequests(Tail(log), key)

\* C5: in one merge_with_transactions run with a committee lookup supplied, at
\* most one online search is sent per distinct (name, party) pair, however many
\* transactions share the pair.
C5_OneOnlineSearchPerKey ==
    (call.op = "merge" /\ call.fallback_search) =>
        \A i \in 1..Len(call.arg) :
            OnlineRequests(trace.log,
                <<tx_name(call.arg[i], "recipient"),
                  tx_party(call.arg[i], "recipient_party")>>) <= 1

\* a merge in which two transactions or more share a pair for which an online
\* search was sent
C5_Witness ==
    /\ call.op = "merge"
    /\ call.fallback_search
    /\ \E g \in 1..Len(trace.log) :
          /\ Cardinality(trace.log[g].indices) >= 2
          /\ trace.log[g].online = 1

---------------------------------------------------------------------------
(* Properties of the lookups, checked under Spec *)

\* C6: a find_by_name call with use_cache=True leaves its result in the cache
\* under the normalized key (with the party, for candidates); a call that finds
\* its key in the cache returns the entry without an index scan or an online
\* search; and no call changes an entry the cache holds.  So every later call
\* returns the result of the first, also when the first found nothing.
C6_CacheHitReturnsFirstResult ==
    [][ /\ (call'.op = "find_candidate" /\ call'.use_cache
              /\ normalize_name(call'.name) # <<>>) =>
              /\ <<normalize_name(call'.name), call'.party>> \in DOMAIN cand_cache'
              /\ cand_cache'[<<normalize_name(call'.name), call'.party>>] = ret'
              /\ <<normalize_name(call'.name), call'.party>> \in DOMAIN cand_cache =>
                    /\ ret' = cand_cache[<<normalize_name(call'.name), call'.party>>]
                    /\ trace'.scans = 0
                    /\ trace'.online = 0
        /\ (call'.op = "find_committee" /\ call'.use_cache
              /\ normalize_committee_name(call'.name, TRUE) # <<>>) =>
              /\ normalize_committee_name(call'.name, TRUE) \in DOMAIN comm_cache'
              /\ comm_cache'[normalize_committee_name(call'.name, TRUE)] = ret'
              /\ normalize_committee_name(call'.name, TRUE) \in DOMAIN comm_cache =>
                    /\ ret' = comm_cache[normalize_committee_name(call'.name, TRUE)]
                    /\ trace'.scans = 0
                    /\ trace'.online = 0
        /\ \A k \in DOMAIN cand_cache :
              k \in DOMAIN cand_cache' /\ cand_cache'[k] = cand_cache[k]
        /\ \A k \in DOMAIN comm_cache :
              k \in DOMAIN comm_cache' /\ comm_cache'[k] = comm_cache[k]
      ]_vars

\* a cached call that returned the empty result of an earlier call although
\* the name index now holds the name
C6_Witness ==
    /\ call.op = "find_candidate"
    /\ call.use_cache
    /\ trace.scans = 0
    /\ ret = <<>>
    /\ normalize_name(call.name) \in DOMAIN cand_name_index
    /\ <<normalize_name(call.name), call.party>> \in DOMAIN cand_cache

\* the accounts the exact-name strategy matches for the last call
ExactAccounts ==
    { a \in DOMAIN candidates :
        /\ \E i \in 1..Len(Get(cand_name_index, normalize_name(call.name), <<>>)) :
              cand_name_index[normalize_name(call.name)][i] = a
        /\ party_matches(candidates[a], call.party) }

\* the (first, last) key of the last call's name
ComponentKey ==
    <<normalize_name(parse_name_components(call.name)[1]),
      normalize_name(parse_name_components(call.name)[2])>>

\* the accounts the component strategy matches for the last call
ComponentAccounts ==
    { a \in DOMAIN candidates :
        /\ ComponentKey[1] # <<>> /\ ComponentKey[2] # <<>>
        /\ \E i \in 1..Len(Get(component_index, ComponentKey, <<>>)) :
              component_index[ComponentKey][i] = a
        /\ party_matches(candidates[a], call.party) }

\* C7: a result of CandidateLookup.find_by_name holds no account twice, and an
\* account that both the exact strategy and the component strategy match is in
\* it once, as exact with confidence 1.0.
C7_NoAccountTwice ==
    call.op = "find_candidate" =>
        /\ \A i, j \in 1..Len(ret) : i # j => ret[i].account # ret[j].account
        /\ trace.scans > 0 =>
              \A a \in ExactAccounts \cap ComponentAccounts :
                  \E i \in 1..Len(ret) :
                      /\ ret[i].account = a
                      /\ ret[i].match_method = "exact"
                      /\ ret[i].match_confidence = ConfExact

\* a search that found an account under both strategies, the account being
\* twice in the name index under the key
C7_Witness ==
    /\ call.op = "find_candidate"
    /\ trace.scans > 0
    /\ ExactAccounts \cap ComponentAccounts # {}
    /\ Len(Get(cand_name_index, normalize_name(call.name), <<>>)) >= 2
    /\ ret # <<>>

\* no element is twice in the list
NoDuplicates(list) ==
    \A i, j \in 1..Len(list) : i # j => list[i] # list[j]

\* every list of the index is free of duplicates
IndexHasNoDuplicates(index) ==
    \A k \in DOMAIN index : NoDuplicates(index[k])

\* the account of a row of a roster file
RowAccount(row) == Strip(Get(row, "AcctNum", <<>>))

\* C8: when an account is loaded twice, the fields of the later load replace
\* the earlier ones in the store, and no list of the full-name, last-name,
\* component or committee-name index holds the account twice under one key.
C8_ReloadKeepsIndexesFree ==
    /\ (call.op = "load_candidates" /\ trace.raised = "") =>
          \A i \in 1..Len(call.arg.rows) :
              (/\ RowAccount(call.arg.rows[i]) # <<>>
               /\ \A j \in (i + 1)..Len(call.arg.rows) :
                     RowAccount(call.arg.rows[j]) # RowAccount(call.arg.rows[i]))
              => candidates[RowAccount(call.arg.rows[i])] = call.arg.rows[i]
    /\ IndexHasNoDuplicates(cand_name_index)
    /\ IndexHasNoDuplicates(lastname_index)
    /\ IndexHasNoDuplicates(component_index)
    /\ IndexHasNoDuplicates(comm_name_index)

---------------------------------------------------------------------------
(* Properties of the normalizers, checked under SpecNorm *)

\* C9: normalize_name is idempotent: normalizing a normalized name returns it
\* unchanged.
C9_NormalizeNameIdempotent ==
    call.op = "normalize_name" => normalize_name(fn_out) = fn_out

\* C10: normalize_committee_name is idempotent for both settings of lowercase:
\* normalizing a normalized committee name returns it unchanged.
C10_NormalizeCommitteeNameIdempotent ==
    call.op = "normalize_committee_name" =>
        normalize_committee_name(fn_out, call.use_cache) = fn_out

---------------------------------------------------------------------------
(* The lookups called with names that are empty, None or normalize to the   *)
(* empty string, between loads and ordinary cached lookups                   *)

sParens == <<"(", ")">>
sBlankPAC == <<" ", "P", "A", "C">>

\* names for which find_by_name returns at once
BlankCandidateNames == {<<>>, None, sParens}
BlankCommitteeNames == {<<>>, None, sBlankPAC}

BlankNext ==
    \/ \E file \in CandidateFiles : LoadCandidates(file)
    \/ \E file \in CommitteeFiles : LoadCommittees(file)
    \/ FindCandidate(sRoeAl, None, TRUE)
    \/ FindCommittee(sBay, TRUE, TRUE, WebHit)
    \/ \E name \in BlankCandidateNames, party \in Parties, use_cache \in BOOLEAN :
          FindCandidate(name, party, use_cache)
    \/ \E name \in BlankCommitteeNames, use_cache \in BOOLEAN,
          fallback_search \in BOOLEAN :
          FindCommittee(name, use_cache, fallback_search, WebHit)

SpecBlank == Init /\ [][BlankNext]_vars

\* C11: a find_by_name call whose name is empty, None or normalizes to the
\* empty string returns the empty list, sends no online search and leaves the
\* store, the indexes and the lookup cache as they were.
C11_BlankNameIsNoOp ==
    [][ /\ (call'.op = "find_candidate" /\ normalize_name(call'.name) = <<>>) =>
              /\ ret' = <<>>
              /\ trace'.online = 0
              /\ UNCHANGED lookupVars
        /\ (call'.op = "find_committee"
              /\ normalize_committee_name(call'.name, TRUE) = <<>>) =>
              /\ ret' = <<>>
              /\ trace'.online = 0
              /\ UNCHANGED lookupVars
      ]_vars

\* a committee lookup with fallback and cache enabled, on a name that is not
\* empty but normalizes to the empty string, the store, the index and the
\* cache being populated
C11_Witness ==
    /\ call.op = "find_committee"
    /\ call.name = sBlankPAC
    /\ call.use_cache /\ call.fallback_search
    /\ ret = <<>>
    /\ DOMAIN committees # {}
    /\ DOMAIN comm_name_index # {}
    /\ DOMAIN comm_cache # {}
    /\ DOMAIN candidates # {}

---------------------------------------------------------------------------
(* Roster loads, with rows that lack an account or a name *)

\* a candidate row with an account and no name part
rowNoNames == CandidateRow(<<"3">>, <<>>, <<" ">>, sDemocrat, <<"D","E","M">>, <<"2","2">>)
\* a committee row with a name and no account
rowNoCommAcct == CommitteeRow(<<>>, sBayFund)

LoadCandidateFiles ==
    { File(<<rowRoe20>>), File(<<rowNoAcct, rowRoe22, rowRoeDem>>),
      File(<<rowNoNames>>), File(<<rowRoeDem, rowNoNames>>), NoHeaderFile }
LoadCommitteeFiles ==
    { File(<<rowSun>>), File(<<rowNoName, rowSunAgain>>),
      File(<<rowNoCommAcct, rowSun>>), NoHeaderFile }

LoadNext ==
    \/ \E file \in LoadCandidateFiles : LoadCandidates(file)
    \/ \E file \in LoadCommitteeFiles : LoadCommittees(file)

SpecLoad == Init /\ [][LoadNext]_vars

\* the row has a non-empty account
HasAccount(row) == Strip(Get(row, "AcctNum", <<>>)) # <<>>

\* the candidate row has a name part
HasNamePart(row) ==
    \/ Strip(Get(row, "NameFirst", <<>>)) # <<>>
    \/ Strip(Get(row, "NameLast", <<>>)) # <<>>
    \/ Strip(Get(row, "NameMiddle", <<>>)) # <<>>

\* the committee row has a committee name
HasCommitteeName(row) == Strip(Get(row, "Committee Name", <<>>)) # <<>>

\* the rows of the file just loaded that have an account and a name
AcceptedRows ==
    { i \in 1..Len(call.arg.rows) :
        /\ HasAccount(call.arg.rows[i])
        /\ IF call.op = "load_candidates"
           THEN HasNamePart(call.arg.rows[i])
           ELSE HasCommitteeName(call.arg.rows[i]) }

\* C12: a roster load skips every row without a non-empty account or without
\* a non-empty name (candidates: no name part; committees: no committee
\* name), stores exactly the accepted rows and returns their number.
C12_LoadSkipsIncompleteRows ==
    (call.op \in {"load_candidates", "load_committees"} /\ trace.raised = "") =>
        /\ ret = Cardinality(AcceptedRows)
        /\ steps = 1 =>
              DOMAIN (IF call.op = "load_candidates" THEN candidates ELSE committees)
                 = { Strip(call.arg.rows[i]["AcctNum"]) : i \in AcceptedRows }

---------------------------------------------------------------------------
(* The online fallback when the portal does not answer, checked under Spec *)

\* C13: when the request of the online committee search fails (network
\* error, timeout, status other than 2xx), find_by_name with fallback enabled
\* raises to its caller instead of returning the empty list of a missing match.
C13_TransportFailureRaises ==
    (/\ call.op = "find_committee"
     /\ call.fallback_search
     /\ trace.online = 1
     /\ call.arg.search.status = "error")
    => trace.raised # ""

---------------------------------------------------------------------------
(* candidate_lookup.py: CandidateLookup.load_from_elections, and            *)
(* candidate.py: CandidateScraper.download_all.  An election is a record:   *)
(* its id, whether CandidateScraper.download succeeded, the file it wrote   *)

\* the most elections in one list
MaxElections == 3

\* total_loaded += loaded, after self._load_from_file(temp_file)
election_loaded(acc, r) ==
    IF r.raised # "" THEN [acc EXCEPT !.L = r.L]
    ELSE [L |-> r.L, total_loaded |-> acc.total_loaded + r.ret]

\* the loop body of load_from_elections: try download and load, except
\* Exception: continue
election_step(acc, election) ==
    IF ~election.downloaded THEN acc
    ELSE election_loaded(acc, CandidateLookup_load_from_file(acc.L, election.file))

\* a variant of elections_loop without the try/except around one election:
\* the first failure ends the loop
RECURSIVE elections_until_failure(_, _)
elections_until_failure(acc, elections) ==
    IF elections = <<>> THEN [L |-> acc.L, total_loaded |-> acc.total_loaded]
    ELSE IF ~Head(elections).downloaded THEN acc
    ELSE IF CandidateLookup_load_from_file(acc.L, Head(elections).file).raised # ""
    THEN acc
    ELSE elections_until_failure(election_step(acc, Head(elections)),
                                 Tail(elections))

\* for idx, election_id in enumerate(election_ids, 1)
RECURSIVE elections_loop(_, _)
elections_loop(acc, elections) ==
    IF elections = <<>> THEN acc
    ELSE elections_loop(election_step(acc, Head(elections)), Tail(elections))

\* return total_loaded
elections_done(acc) == [L |-> acc.L, raised |-> "", ret |-> acc.total_loaded]

load_from_elections(L, elections) ==
    elections_done(elections_loop([L |-> L, total_loaded |-> 0], elections))

\* row['_source_election'] = election_id
tag_rows(rows, election_id) ==
    [i \in 1..Len(rows) |-> Put(rows[i], "_source_election", election_id)]

\* the loop of download_all: all_candidates after the elections
RECURSIVE all_candidates(_)
all_candidates(elections) ==
    IF elections = <<>> THEN <<>>
    ELSE (IF Head(elections).downloaded /\ Head(elections).file.readable
          THEN tag_rows(Head(elections).file.rows, Head(elections).id)
          ELSE <<>>)
         \o all_candidates(Tail(elections))

\* if len(all_candidates) == 0: raise ParseError; else the combined rows
combined(rows) ==
    IF Len(rows) = 0 THEN [raised |-> "ParseError", ret |-> <<>>]
    ELSE [raised |-> "", ret |-> rows]

download_all(elections) == combined(all_candidates(elections))

Election(id, downloaded, file) == [id |-> id, downloaded |-> downloaded, file |-> file]

Elections ==
    { Election(<<"2","0">>, TRUE, File(<<rowRoe20>>)),
      Election(<<"2","2">>, TRUE, File(<<rowRoe22, rowRoeDem>>)),
      Election(<<"1","8">>, FALSE, NoHeaderFile),
      Election(<<"1","6">>, TRUE, NoHeaderFile) }

ElectionLists == UNION { [1..n -> Elections] : n \in 0..MaxElections }

LoadFromElectionsDone(elections, r) ==
    CandidateCallDone(r, [NoCall EXCEPT !.op = "load_from_elections",
                                        !.arg = elections],
                      LoadTrace(r))

\* candidate_lookup.load_from_elections(election_ids), on the fresh lookup
LoadFromElections(elections) ==
    /\ call.op = "init"
    /\ LoadFromElectionsDone(elections,
           load_from_elections(TheCandidateLookup, elections))

DownloadAllDone(elections, r) ==
    /\ call' = [NoCall EXCEPT !.op = "download_all", !.arg = elections]
    /\ ret' = r.ret
    /\ trace' = LoadTrace(r)
    /\ steps' = steps + 1
    /\ UNCHANGED <<lookupVars, fnVars, payload>>

\* CandidateScraper.download_all(election_ids=...)
DownloadAll(elections) ==
    /\ call.op = "init"
    /\ DownloadAllDone(elections, download_all(elections))

ElectionsNext ==
    \/ \E elections \in ElectionLists : LoadFromElections(elections)
    \/ \E elections \in ElectionLists : DownloadAll(elections)

SpecElections == Init /\ [][ElectionsNext]_vars

\* the election was downloaded and its file has a header
Succeeded(election) ==
    election.downloaded /\ election.file.readable /\ election.file.header

\* the rows with an account in the elections of the call that succeeded, as
\* <<position of the election, position of the row>>
LoadedRows ==
    UNION { { <<e, r>> : r \in { q \in 1..Len(call.arg[e].file.rows) :
                                   HasAccount(call.arg[e].file.rows[q]) } } :
            e \in { d \in 1..Len(call.arg) : Succeeded(call.arg[d]) } }

C15_OnlineOnlyAfterOfflineMiss ==
    [][ call'.op = "find_committee" =>
          /\ trace'.online = 1 =>
                /\ call'.fallback_search
                /\ normalize_committee_name(call'.name, TRUE)
                      \notin DOMAIN comm_name_index
          /\ (\/ ~call'.fallback_search
              \/ normalize_committee_name(call'.name, TRUE)
                    \in DOMAIN comm_name_index) =>
                /\ trace'.online = 0
                /\ committees' = committees
                /\ comm_name_index' = comm_name_index
                /\ total_committees' = total_committees
      ]_vars

\* a lookup with fallback enabled that searched the index, found the name
\* there and sent nothing, the portal being ready to answer
C15_Witness ==
    /\ call.op = "find_committee"
    /\ call.fallback_search
    /\ call.arg = WebSun
    /\ trace.scans = 1
    /\ trace.online = 0
    /\ ret # <<>>
    /\ ret[1].match_method = "exact"

---------------------------------------------------------------------------
(* The back-fill after an online match, the portal answering with an        *)
(* account that is new or that the store holds under another name           *)

\* the portal lists 'Bay Fund' under the account of the roster's 'Sun PAC'
WebBaySeven == [search |-> Page(<<HeaderRow, ResultRow(sBayFund, <<"7">>)>>),
                details |-> Details]

BackfillNext ==
    \/ LoadCommittees(File(<<rowSun>>))
    \/ \E name \in {sBay, sBayFund}, use_cache \in BOOLEAN,
          fallback_search \in BOOLEAN, web \in {WebHit, WebBaySeven} :
          FindCommittee(name, use_cache, fallback_search, web)

SpecBackfill == Init /\ [][BackfillNext]_vars

\* the offline, uncached lookup of the name in the lookup as it is now
OfflineLookup(name) ==
    CommitteeLookup_find_by_name(TheCommitteeLookup, name, FALSE, FALSE, WebDown).ret

\* C16: after a find_by_name that succeeded through the online fallback with
\* account A and found name N, A is in the committee store and a lookup of N
\* without cache and without fallback returns A as an exact match, also when
\* A was in the store under another name before.
C16_OnlineMatchIsFoundOffline ==
    (/\ call.op = "find_committee"
     /\ trace.online = 1
     /\ ret # <<>>) =>
        /\ ret[1].account \in DOMAIN committees
        /\ \E i \in 1..Len(OfflineLookup(ret[1].committee["Committee Name"])) :
              /\ OfflineLookup(ret[1].committee["Committee Name"])[i].account
                    = ret[1].account
              /\ OfflineLookup(ret[1].committee["Committee Name"])[i].match_method
                    = "exact"

---------------------------------------------------------------------------
(* A roster candidate with a middle name, looked up by 'Last, First' and    *)
(* by 'First Last'                                                          *)

rowRoeMiddle ==
    Put(CandidateRow(<<"4">>, sAl, sRoe, sRepublican, <<"R","E","P">>, <<"2","2">>),
        "NameMiddle", <<"J">>)

MiddleNext ==
    \/ LoadCandidates(File(<<rowRoe20>>))
    \/ LoadCandidates(File(<<rowRoeMiddle>>))
    \/ \E name \in CandidateQueries, party \in Parties, use_cache \in BOOLEAN :
          FindCandidate(name, party, use_cache)

SpecMiddle == Init /\ [][MiddleNext]_vars

\* the two spellings of a stored candidate's first and last name
LastCommaFirst(candidate) ==
    Strip(Get(candidate, "NameLast", <<>>)) \o <<",", " ">>
        \o Strip(Get(candidate, "NameFirst", <<>>))

FirstSpaceLast(candidate) ==
    Strip(Get(candidate, "NameFirst", <<>>)) \o <<" ">>
        \o Strip(Get(candidate, "NameLast", <<>>))

MatchesOf(a) == { i \in 1..Len(ret) : ret[i].account = a }

\* C17: for a stored candidate with first name F and last name L, whatever
\* the middle name, an uncached find_by_name('L, F') without party filter
\* returns exactly one match for the account, exact with confidence 1.0, and
\* find_by_name('F L') returns the account as a component match with
\* confidence 0.95; no account is twice in one result.
C17_BothSpellingsFindTheCandidate ==
    (call.op = "find_candidate" /\ call.party = None /\ ~call.use_cache) =>
        \A a \in DOMAIN candidates :
            /\ Cardinality(MatchesOf(a)) <= 1
            /\ call.name = LastCommaFirst(candidates[a]) =>
                  /\ Cardinality(MatchesOf(a)) = 1
                  /\ \A i \in MatchesOf(a) :
                        /\ ret[i].match_method = "exact"
                        /\ ret[i].match_confidence = ConfExact
            /\ call.name = FirstSpaceLast(candidates[a]) =>
                  \E i \in MatchesOf(a) :
                        /\ ret[i].match_method = "component"
                        /\ ret[i].match_confidence = ConfComponent

---------------------------------------------------------------------------
(* The party filter of CandidateLookup.find_by_name                         *)

sGOP == <<"G","O","P">>
sREP == <<"R","E","P">>
sDEM == <<"D","E","M">>
sRep == <<"r","e","p">>
sNPA == <<"N","P","A">>
sDemocratic == sDemocrat \o <<"i","c">>

rowRoeGOP == CandidateRow(<<"5">>, sAl, sRoe, sGOP, sREP, <<"2","2">>)
rowRoeNoParty == CandidateRow(<<"6">>, sAl, sRoe, <<>>, sNPA, <<"2","2">>)

FilterParties == {None, sDEM, sRep, sDemocratic, sNPA}

PartyNext ==
    \/ LoadCandidates(File(<<rowRoe20, rowRoeGOP>>))
    \/ LoadCandidates(File(<<rowRoeDem, rowRoeNoParty>>))
    \/ \E name \in CandidateQueries, party \in FilterParties, use_cache \in BOOLEAN :
          FindCandidate(name, party, use_cache)

SpecParty == Init /\ [][PartyNext]_vars

\* the accounts under the last call's name in the name index or the
\* component index, whatever their party
NamedAccounts ==
    { a \in DOMAIN candidates :
        \/ \E i \in 1..Len(Get(cand_name_index, normalize_name(call.name), <<>>)) :
              cand_name_index[normalize_name(call.name)][i] = a
        \/ /\ ComponentKey[1] # <<>> /\ ComponentKey[2] # <<>>
           /\ \E i \in 1..Len(Get(component_index, ComponentKey, <<>>)) :
                 component_index[ComponentKey][i] = a }

\* the fixed table of the claim: democrat/dem to DEM, republican/rep to REP
TableCode(party) ==
    IF Lower(party) \in {Lower(sDemocrat), Lower(sDEM)} THEN {sDEM}
    ELSE IF Lower(party) \in {Lower(sRepublican), sRep} THEN {sREP}
    ELSE {}

\* the three ways of the claim for an entity to pass the filter
PartyPasses(candidate, party) ==
    \/ party = None
    \/ /\ party # None
       /\ \/ Contains(Lower(party), Lower(Strip(candidate["PartyName"])))
          \/ Contains(Lower(Strip(candidate["PartyName"])), Lower(party))
          \/ Strip(candidate["PartyCode"]) \in TableCode(party)

\* C18: the party filter of CandidateLookup.find_by_name passes an entity
\* exactly when party is None, or the party and the entity's party name
\* contain one another ignoring case, or the fixed table maps the party to the
\* entity's party code: every match of a result passes, and a search that
\* scanned the indexes returns every account under the name that passes.
C18_PartyFilter ==
    call.op = "find_candidate" =>
        /\ \A i \in 1..Len(ret) : PartyPasses(ret[i].candidate, call.party)
        /\ trace.scans > 0 =>
              \A a \in NamedAccounts :
                  PartyPasses(candidates[a], call.party) <=>
                      \E i \in 1..Len(ret) : ret[i].account = a

\* a search for 'rep' that returned the account whose party name is 'GOP'
\* through the table, and left out the Democrat of the same name
C18_Witness ==
    /\ call.op = "find_candidate"
    /\ call.party = sRep
    /\ trace.scans > 0
    /\ \E i \in 1..Len(ret) : ret[i].account = <<"5">>
    /\ <<"2">> \in NamedAccounts
    /\ \A i \in 1..Len(ret) : ret[i].account # <<"2">>

---------------------------------------------------------------------------
(* CommitteeScraper: the constructor and what it calls *)

DigitChars == <<"0","1","2","3","4","5","6","7","8","9">>

\* the characters of the data in the order of their code points
Alphabet == <<" ">> \o DigitChars \o UpperChars \o LowerChars

\* s < t for two Python strings
RECURSIVE StrLess(_, _)
StrLess(s, t) ==
    IF t = <<>> THEN FALSE
    ELSE IF s = <<>> THEN TRUE
    ELSE IF Head(s) # Head(t) THEN IndexOf(Alphabet, Head(s)) < IndexOf(Alphabet, Head(t))
    ELSE StrLess(Tail(s), Tail(t))

\* the blocks <<i, j, k>> with a[i..i+k-1] = b[j..j+k-1], k > 0
common_blocks(a, b) ==
    { m \in (1..Len(a)) \X (1..Len(b)) \X (1..Len(a)) :
        /\ m[1] + m[3] - 1 <= Len(a)
        /\ m[2] + m[3] - 1 <= Len(b)
        /\ SubSeq(a, m[1], m[1] + m[3] - 1) = SubSeq(b, m[2], m[2] + m[3] - 1) }

\* difflib.SequenceMatcher.find_longest_match (no junk): the longest block,
\* the earliest in a and then the earliest in b among the longest
find_longest_match(blocks) ==
    CHOOSE m \in blocks : \A o \in blocks :
        \/ m[3] > o[3]
        \/ m[3] = o[3] /\ m[1] < o[1]
        \/ m[3] = o[3] /\ m[1] = o[1] /\ m[2] <= o[2]

\* the sum of the sizes of difflib's matching blocks of a and b: the longest
\* block, then the same to its left and to its right
RECURSIVE matching_size(_, _)
matching_around(a, b, m) ==
    m[3] + matching_size(SubSeq(a, 1, m[1] - 1), SubSeq(b, 1, m[2] - 1))
         + matching_size(SubSeq(a, m[1] + m[3], Len(a)), SubSeq(b, m[2] + m[3], Len(b)))
matching_size(a, b) ==
    IF common_blocks(a, b) = {} THEN 0
    ELSE matching_around(a, b, find_longest_match(common_blocks(a, b)))

\* difflib.SequenceMatcher(a=x, b=word).ratio() as the fraction <<2M, T>>
ratio(x, word) ==
    IF Len(x) + Len(word) = 0 THEN <<1, 1>>
    ELSE <<2 * matching_size(x, word), Len(x) + Len(word)>>

\* the cutoff 0.6 of difflib.get_close_matches: ratio >= 6/10
CloseEnough(r) == 10 * r[1] >= 6 * r[2]

\* (score, x) > (score, y) as heapq.nlargest compares the pairs
CloserThan(x, y, word) ==
    \/ ScoreGreater(ratio(x, word), ratio(y, word))
    \/ ratio(x, word)[1] * ratio(y, word)[2] = ratio(y, word)[1] * ratio(x, word)[2]
       /\ StrLess(y, x)

\* difflib.get_close_matches(word, possibilities, n=1): <<>> or <<best>>
get_close_matches(word, possibilities) ==
    IF \A i \in 1..Len(possibilities) : ~CloseEnough(ratio(possibilities[i], word))
    THEN <<>>
    ELSE << CHOOSE x \in { possibilities[i] : i \in 1..Len(possibilities) } :
              /\ CloseEnough(ratio(x, word))
              /\ \A i \in 1..Len(possibilities) :
                    possibilities[i] = x \/ CloserThan(x, possibilities[i], word) >>

\* utils.strip_breaks: "nbsp" stands for the character '\xa0'
BreakChars == {"\n", "\r", "\t"}
NBSP == "nbsp"

NotBreak(c) == c \notin BreakChars

\* str.replace(sub, '')
RECURSIVE RemoveSub(_, _)
RemoveSub(s, sub) ==
    IF Len(s) < Len(sub) THEN s
    ELSE IF StartsWith(s, sub) THEN RemoveSub(SubSeq(s, Len(sub) + 1, Len(s)), sub)
    ELSE <<Head(s)>> \o RemoveSub(Tail(s), sub)

\* the three replacements of runs of spaces by one space
RECURSIVE SqueezeSpaces(_)
SqueezeSpaces(s) ==
    IF Len(s) < 2 THEN s
    ELSE IF s[1] = " " /\ s[2] = " " THEN SqueezeSpaces(Tail(s))
    ELSE <<Head(s)>> \o SqueezeSpaces(Tail(s))

\* str.strip() of a text that may hold '\xa0'
RECURSIVE LStripWhite(_)
LStripWhite(s) ==
    IF s # <<>> /\ Head(s) \in {" ", NBSP} THEN LStripWhite(Tail(s)) ELSE s

RECURSIVE RStripWhite(_)
RStripWhite(s) ==
    IF s # <<>> /\ s[Len(s)] \in {" ", NBSP}
    THEN RStripWhite(SubSeq(s, 1, Len(s) - 1)) ELSE s

strip_breaks(text) ==
    LStripWhite(RStripWhite(SqueezeSpaces(RemoveSub(SelectSeq(text, NotBreak),
                                       <<NBSP, "3", "3", "6", "0", "6">>))))

IsDigits(s) == s # <<>> /\ \A i \in 1..Len(s) : IndexOf(DigitChars, s[i]) > 0

\* int() of a string of digits
RECURSIVE ToInt(_)
ToInt(s) ==
    IF s = <<>> THEN 0
    ELSE 10 * ToInt(SubSeq(s, 1, Len(s) - 1)) + IndexOf(DigitChars, s[Len(s)]) - 1

\* the decimal digits of n, zero-padded to the width
RECURSIVE Padded(_, _)
Padded(n, width) ==
    IF width = 0 THEN <<>>
    ELSE Padded(n \div 10, width - 1) \o <<DigitChars[(n % 10) + 1]>>

\* str.split(sep) for a one-character separator
RECURSIVE SplitOn(_, _)
SplitOn(s, sep) ==
    IF IndexOf(s, sep) = 0 THEN <<s>>
    ELSE <<SubSeq(s, 1, IndexOf(s, sep) - 1)>>
             \o SplitOn(SubSeq(s, IndexOf(s, sep) + 1, Len(s)), sep)

IsLeap(year) == year % 4 = 0 /\ (year % 100 # 0 \/ year % 400 = 0)

DaysIn(month, year) ==
    IF month = 2 THEN (IF IsLeap(year) THEN 29 ELSE 28)
    ELSE IF month \in {4, 6, 9, 11} THEN 30 ELSE 31

\* the day of '%d': one or two digits, or a space and one digit
DayDigits(day) == IF Len(day) = 2 /\ day[1] = " " THEN Tail(day) ELSE day

\* datetime.strptime(text, '%m/%d/%Y') succeeds on the three parts
IsDate(parts) ==
    /\ Len(parts) = 3
    /\ IsDigits(parts[1]) /\ Len(parts[1]) <= 2 /\ ToInt(parts[1]) \in 1..12
    /\ IsDigits(DayDigits(parts[2])) /\ Len(parts[2]) <= 2
    /\ IsDigits(parts[3]) /\ Len(parts[3]) = 4 /\ ToInt(parts[3]) >= 1
    /\ ToInt(DayDigits(parts[2])) \in 1..DaysIn(ToInt(parts[1]), ToInt(parts[3]))

date_isoformat(parts) ==
    parts[3] \o <<"-">> \o Padded(ToInt(parts[1]), 2) \o <<"-">>
        \o Padded(ToInt(DayDigits(parts[2])), 2)

\* utils.toDate
toDate(text) ==
    IF IsDate(SplitOn(Strip(text), "/")) THEN date_isoformat(SplitOn(Strip(text), "/"))
    ELSE <<>>

\* float() of a plain decimal text (digits, at most one point among them): the
\* value as <<n, k>> for n / 10^k with no trailing zero decimal, <<>> for a text
\* float() raises ValueError on. The amounts of the data have no sign and no
\* exponent.
float_parts(parts) ==
    IF Len(parts) = 1 /\ IsDigits(parts[1]) THEN <<ToInt(parts[1]), 0>>
    ELSE IF Len(parts) = 2 /\ IsDigits(parts[1] \o parts[2])
    THEN <<ToInt(parts[1] \o RStripChar(parts[2], "0")), Len(RStripChar(parts[2], "0"))>>
    ELSE <<>>

float(text) == float_parts(SplitOn(Strip(text), "."))

\* committee_name_list of search_accounts: the stripped names of the rows
\* with a link (the href of a link of the result table holds a '=')
RECURSIVE committee_name_list(_)
committee_name_list(rows) ==
    IF rows = <<>> THEN <<>>
    ELSE IF ~Head(rows).link THEN committee_name_list(Tail(rows))
    ELSE <<Strip(Head(rows).name)>> \o committee_name_list(Tail(rows))

\* committees[name] of search_accounts: the account of the last row of the name
RECURSIVE committees_of(_, _)
committees_of(rows, name) ==
    IF rows[Len(rows)].link /\ Strip(rows[Len(rows)].name) = name
    THEN rows[Len(rows)].account
    ELSE committees_of(SubSeq(rows, 1, Len(rows) - 1), name)

\* the end of search_accounts: matches is <<>> or <<name>>
account_of_match(rows, matches) ==
    IF matches = <<>> THEN None ELSE committees_of(rows, matches[1])

\* CommitteeScraper.search_accounts on the parsed response
search_accounts(committee_name, response) ==
    IF response.tables < 3 THEN None
    ELSE account_of_match(SubSeq(response.rows, 2, Len(response.rows)),
             get_close_matches(committee_name,
                 committee_name_list(SubSeq(response.rows, 2, Len(response.rows)))))

DetailKeys == <<"type", "status", "address", "phone", "chair", "treasurer",
                "registered_agent", "purpose", "affiliates">>

\* CommitteeScraper._get_details on the parsed page: page.rows are the rows of
\* the first table, each the texts of its cells
get_details(page) ==
    IF page.status # "ok" THEN [raised |-> "HTTPError", details |-> <<>>]
    ELSE IF ~page.table \/ Len(page.rows) < 11
    THEN [raised |-> "ParseError", details |-> <<>>]
    ELSE IF \E i \in 3..11 : Len(page.rows[i]) < 2
    THEN [raised |-> "ParseError", details |-> <<>>]
    ELSE [raised |-> "",
          details |-> [k \in {DetailKeys[i] : i \in 1..Len(DetailKeys)} |->
                          strip_breaks(page.rows[2 + IndexOf(DetailKeys, k)][2])]]

QueryFor == [contributions |-> 1, expenditures |-> 2, other |-> 3, transfers |-> 4]

\* CommitteeScraper._update_payload: the payload of the class afterwards
committee_payload(committee_name, account_num, result_type) ==
    [account |-> ToInt(Strip(account_num)), comname |-> committee_name,
     CanCom |-> "Comm", seqnum |-> 0, queryfor |-> QueryFor[result_type],
     queryorder |-> "DAT", queryoutput |-> 2, query |-> "Submit Query Now"]

ContributionColumns == {"Rpt Yr", "Rpt Type", "Date", "Amount", "Typ",
                        "Contributor Name", "Address", "City State Zip",
                        "Occupation", "InKind Desc"}
ExpenditureColumns == {"Rpt Yr", "Rpt Type", "Date", "Amount", "Expense Paid To",
                       "Address", "City State Zip", "Purpose", "Typ Reimb"}

contribution_item(item) ==
    [report_year |-> item["Rpt Yr"], report_type |-> item["Rpt Type"],
     date |-> toDate(item["Date"]), amount |-> float(item["Amount"]),
     type |-> Strip(item["Typ"]),
     contributor_name |-> Strip(item["Contributor Name"]),
     contributor_address |-> Strip(item["Address"]),
     contributor_address2 |-> Strip(item["City State Zip"]),
     contributor_occupation |-> Strip(item["Occupation"]),
     item_type |-> Strip(item["Typ"]),
     inkind_description |-> Strip(item["InKind Desc"])]

expenditure_item(item) ==
    [report_year |-> item["Rpt Yr"], report_type |-> item["Rpt Type"],
     date |-> toDate(item["Date"]), amount |-> float(item["Amount"]),
     paid_to_name |-> Strip(item["Expense Paid To"]),
     paid_to_address |-> Strip(item["Address"]),
     paid_to_address2 |-> Strip(item["City State Zip"]),
     purpose |-> Strip(item["Purpose"]),
     item_type |-> Strip(item["Typ Reimb"])]

\* what the cleaning of one item raises: the columns are read in the order of
\* the assignments, the amount after 'Rpt Yr', 'Rpt Type' and 'Date'
item_raises(item, columns) ==
    IF {"Rpt Yr", "Rpt Type", "Date", "Amount"} \ DOMAIN item # {} THEN "KeyError"
    ELSE IF float(item["Amount"]) = <<>> THEN "ValueError"
    ELSE IF columns \ DOMAIN item # {} THEN "KeyError"
    ELSE ""

\* the loop of _parse_results over the rows of the reader
RECURSIVE clean_data(_, _, _)
clean_data(data, result_type, acc) ==
    IF data = <<>> \/ acc.raised # "" THEN acc
    ELSE IF item_raises(Head(data), IF result_type = "contributions"
                                    THEN ContributionColumns
                                    ELSE ExpenditureColumns) # ""
    THEN [acc EXCEPT !.raised = item_raises(Head(data),
                                    IF result_type = "contributions"
                                    THEN ContributionColumns
                                    ELSE ExpenditureColumns)]
    ELSE clean_data(Tail(data), result_type,
             [acc EXCEPT !.results = Append(acc.results,
                 IF result_type = "contributions"
                 THEN contribution_item(Head(data))
                 ELSE expenditure_item(Head(data)))])

\* CommitteeScraper._parse_results with request(): the answer of the query
parse_results(result_type, answer) ==
    IF answer.status # "ok" THEN [raised |-> "HTTPError", results |-> <<>>]
    ELSE IF result_type \in {"contributions", "expenditures"}
    THEN clean_data(answer.rows, result_type, [raised |-> "", results |-> <<>>])
    ELSE [raised |-> "", results |-> <<>>]

NoScraper(raised) == [raised |-> raised, ret |-> <<>>]

\* the end of __init__: the attributes of the new object
init_results(committee_name, result_type, account_num, d, r) ==
    IF r.raised # "" THEN NoScraper(r.raised)
    ELSE [raised |-> "",
          ret |-> [committee_name |-> committee_name, result_type |-> result_type,
                   account_num |-> account_num, committee_details |-> d.details,
                   payload |-> committee_payload(committee_name, account_num,
                                                 result_type),
                   results |-> r.results]]

\* __init__ after _get_details: _update_payload raises ValueError on an
\* account that int() does not take
init_details(committee_name, result_type, portal, account_num, d) ==
    IF d.raised # "" THEN NoScraper(d.raised)
    ELSE IF ~IsDigits(Strip(account_num)) THEN NoScraper("ValueError")
    ELSE init_results(committee_name, result_type, account_num, d,
                      parse_results(result_type, portal.results))

\* __init__ after _get_account_num
init_account(committee_name, result_type, portal, account_num) ==
    IF account_num = None THEN NoScraper("ValueError")
    ELSE init_details(committee_name, result_type, portal, account_num,
                      get_details(portal.details))

ResultTypes == {"contributions", "expenditures", "other", "transfers"}

\* CommitteeScraper.__init__(committee_name, result_type); "" is the default
\* of result_type, <<>> the default of committee_name
CommitteeScraper_init(committee_name, result_type, portal) ==
    IF committee_name = <<>> \/ committee_name = None THEN NoScraper("ValueError")
    ELSE IF result_type = "" THEN NoScraper("ValueError")
    ELSE IF result_type \notin ResultTypes THEN NoScraper("ValueError")
    ELSE IF portal.search.status # "ok" THEN NoScraper("HTTPError")
    ELSE init_account(committee_name, result_type, portal,
                      search_accounts(committee_name, portal.search))

---------------------------------------------------------------------------
(* The constructor of CommitteeScraper against answers of the portal *)

sDate == <<"0","1","/","0","2","/","2","0","2","0">>

\* one row of the portal's tab-separated answer, with the columns of both
\* result types
Item(amount) ==
    [c \in ContributionColumns \cup ExpenditureColumns |->
        CASE c = "Date" -> sDate
          [] c = "Amount" -> amount
          [] c = "Rpt Yr" -> <<"2","0">>
          [] OTHER -> <<" ","x"," ">>]

itemGood == Item(<<"1","2",".","5","0">>)
itemBadAmount == Item(<<"1",",","0","0","0">>)
itemShort == [c \in {"Rpt Yr", "Rpt Type", "Date", "Amount"} |-> itemGood[c]]

Answer(rows) == [status |-> "ok", rows |-> rows]
NoAnswer == [status |-> "error", rows |-> <<>>]

\* the detail page: a table of 11 rows of a label and a value
DetailRow == << <<"l">>, <<" ","a"," "," ","b","\n">> >>
DetailPage(n) == [status |-> "ok", table |-> TRUE, rows |-> [i \in 1..n |-> DetailRow]]
NoDetailPage == [status |-> "error", table |-> FALSE, rows |-> <<>>]

SearchPage == Page(<<HeaderRow, ResultRow(sBayFund, <<"8">>), ResultRow(sSunPAC, <<"7">>)>>)
NoSearchPage == [status |-> "error", tables |-> 0, rows |-> <<>>]

Portal(search, details, results) ==
    [search |-> search, details |-> details, results |-> results]

PortalUp == Portal(SearchPage, DetailPage(11), Answer(<<itemGood, itemGood>>))

Portals ==
    { PortalUp,
      Portal(NoSearchPage, DetailPage(11), Answer(<<itemGood>>)),
      Portal(Page(<<HeaderRow>>), DetailPage(11), Answer(<<itemGood>>)),
      Portal(Page(<<HeaderRow, ResultRow(sSunPAC, <<"7","x">>)>>), DetailPage(11),
             Answer(<<itemGood>>)),
      Portal(SearchPage, NoDetailPage, Answer(<<itemGood>>)),
      Portal(SearchPage, DetailPage(10), Answer(<<itemGood>>)),
      Portal(SearchPage, DetailPage(11), NoAnswer),
      Portal(SearchPage, DetailPage(11), Answer(<<>>)),
      Portal(SearchPage, DetailPage(11), Answer(<<itemGood, itemBadAmount>>)),
      Portal(SearchPage, DetailPage(11), Answer(<<itemShort>>)) }

ScraperNames == {<<>>, sSunPAC, sBay}
ScraperResultTypes == ResultTypes \cup {"", "receipts"}

NewCommitteeScraperDone(committee_name, result_type, portal, r) ==
    /\ call' = [NoCall EXCEPT !.op = "committee_scraper", !.name = committee_name,
                              !.arg = [result_type |-> result_type,
                                       portal |-> portal]]
    /\ ret' = r.ret
    /\ trace' = LoadTrace(r)
    /\ steps' = steps + 1
    /\ UNCHANGED <<lookupVars, fnVars, payload>>

\* CommitteeScraper(committee_name=..., result_type=...)
NewCommitteeScraper(committee_name, result_type, portal) ==
    /\ call.op = "init"
    /\ NewCommitteeScraperDone(committee_name, result_type, portal,
           CommitteeScraper_init(committee_name, result_type, portal))

ScraperNext ==
    \E committee_name \in ScraperNames, result_type \in ScraperResultTypes,
       portal \in Portals :
        NewCommitteeScraper(committee_name, result_type, portal)

SpecScraper == Init /\ [][ScraperNext]_vars

\* C19: constructing CommitteeScraper with a committee name and no
\* result_type, as test_committee_scrape does, succeeds and the object has a
\* results attribute (the portal answering every request).
C19_NameOnlyConstructs ==
    (/\ call.op = "committee_scraper"
     /\ call.name = sSunPAC
     /\ call.arg.result_type = ""
     /\ call.arg.portal = PortalUp) =>
        /\ trace.raised = ""
        /\ "results" \in DOMAIN ret

---------------------------------------------------------------------------
(* The online search over a response of two rows, in both orders *)

sABay == <<"A"," ","B","a","y">>

rowABay == ResultRow(sABay, <<"5">>)
rowBayFund == ResultRow(sBayFund, <<"8">>)

WebContainsFirst == [search |-> Page(<<HeaderRow, rowABay, rowBayFund>>),
                     details |-> Details]
WebStartsFirst == [search |-> Page(<<HeaderRow, rowBayFund, rowABay>>),
                   details |-> Details]
WebContainsOnly == [search |-> Page(<<HeaderRow, rowABay>>), details |-> Details]

RowsNext ==
    \E name \in {sBay, sBayFund}, use_cache \in BOOLEAN, fallback_search \in BOOLEAN,
       web \in {WebContainsFirst, WebStartsFirst, WebContainsOnly, WebDown} :
        FindCommittee(name, use_cache, fallback_search, web)

SpecRows == Init /\ [][RowsNext]_vars

\* the row's normalized name starts with a search variant of the query, or is
\* the normalized query
StartsOrExact(row, query) ==
    /\ row.link
    /\ \/ normalize_committee_name(row.name, TRUE)
             = normalize_committee_name(query, TRUE)
       \/ \E i \in 1..Len(get_search_variants(Truncate(query))) :
             StartsWith(normalize_committee_name(row.name, TRUE),
                        get_search_variants(Truncate(query))[i])

\* C20: when some row of the search response starts with a search variant,
\* the row the online search chooses is a start-of-string or exact match, in
\* whatever order the rows come.
C20_ContainmentOnlyWithoutStartMatch ==
    (/\ call.op = "find_committee"
     /\ trace.online = 1
     /\ ret # <<>>
     /\ \E i \in 2..Len(call.arg.search.rows) :
           StartsOrExact(call.arg.search.rows[i], call.name)) =>
        \E i \in 2..Len(call.arg.search.rows) :
           /\ call.arg.search.rows[i].account = ret[1].account
           /\ StartsOrExact(call.arg.search.rows[i], call.name)

---------------------------------------------------------------------------
(* The score of each row of a response, and the row the search chooses *)

\* the longest of the variants that satisfy the test on the found name, 0 when
\* none does
LongestVariant(variants, Test(_)) ==
    IF \A i \in 1..Len(variants) : ~Test(variants[i]) THEN 0
    ELSE CHOOSE n \in 0..SearchLimit :
            /\ \E i \in 1..Len(variants) : Test(variants[i]) /\ Len(variants[i]) = n
            /\ \A i \in 1..Len(variants) : Test(variants[i]) => Len(variants[i]) <= n

\* the score of a found name for a query as the spec defines it: 1 for an
\* exact match, len(variant)/len(result) for the longest variant the result
\* starts with, else the same for the longest variant it contains, else 0
NameScore(found, search, variants) ==
    IF found = search THEN <<1, 1>>
    ELSE IF found = <<>> THEN ZeroScore
    ELSE IF \E i \in 1..Len(variants) : StartsWith(found, variants[i])
    THEN <<LongestVariant(variants, LAMBDA v : StartsWith(found, v)), Len(found)>>
    ELSE <<LongestVariant(variants, LAMBDA v : Contains(v, found)), Len(found)>>

RowScore(row, query) ==
    IF ~row.link THEN ZeroScore
    ELSE NameScore(normalize_committee_name(row.name, TRUE),
                   normalize_committee_name(query, TRUE),
                   get_search_variants(Truncate(query)))

\* the position in the response of the row the last online search chose
ChosenRows ==
    { i \in 2..Len(call.arg.search.rows) :
        call.arg.search.rows[i].link
        /\ call.arg.search.rows[i].account = ret[1].account }

\* C21: the row the online search chooses has the highest score of all rows
\* of the response, the first of them when several rows have it, and the match
\* is returned with method online_fallback and confidence 0.9.
C21_HighestScoreFirstEncountered ==
    (call.op = "find_committee" /\ trace.online = 1 /\ ret # <<>>) =>
        /\ ret[1].match_method = "online_fallback"
        /\ ret[1].match_confidence = ConfOnline
        /\ \E c \in ChosenRows :
              \A i \in 2..Len(call.arg.search.rows) :
                  /\ ~ScoreGreater(RowScore(call.arg.search.rows[i], call.name),
                                   RowScore(call.arg.search.rows[c], call.name))
                  /\ i < c => ScoreGreater(RowScore(call.arg.search.rows[c], call.name),
                                           RowScore(call.arg.search.rows[i], call.name))

---------------------------------------------------------------------------
(* The online search for queries that end in a short token, and for a query *)
(* longer than the 50 characters the search form takes                      *)

sBayFu == <<"B","a","y"," ","F","u">>
sBayArea == <<"B","a","y"," ","A","r","e","a">>
\* a name of 51 characters that the form cuts after 'Fun'
sLongStem == [i \in 1..(SearchLimit - 4) |-> "a"]
sLong == sLongStem \o <<" ","F","u","n","d">>
sLongFunds == sLong \o <<"s">>

WebVariantFirst ==
    [search |-> Page(<<HeaderRow, ResultRow(sBay, <<"6">>), ResultRow(sBayFu, <<"9">>)>>),
     details |-> Details]
WebArea ==
    [search |-> Page(<<HeaderRow, ResultRow(sSunPAC, <<"7">>), ResultRow(sBayArea, <<"4">>)>>),
     details |-> Details]
WebAreaNoDetails == [WebArea EXCEPT !.details = NoDetails]
WebLong ==
    [search |-> Page(<<HeaderRow, ResultRow(sLongFunds, <<"3">>)>>),
     details |-> Details]

VariantQueries == {sBayFu, sBay, sLong}
VariantWebs == {WebVariantFirst, WebArea, WebAreaNoDetails, WebLong}

VariantsNext ==
    \E name \in VariantQueries, web \in VariantWebs :
        FindCommittee(name, FALSE, TRUE, web)

SpecVariants == Init /\ [][VariantsNext]_vars

\* the rows of the last call's response whose normalized name is a search
\* variant of the truncated query
VariantRows ==
    { i \in 2..Len(call.arg.search.rows) :
        /\ call.arg.search.rows[i].link
        /\ \E k \in 1..Len(get_search_variants(Truncate(call.name))) :
              normalize_committee_name(call.arg.search.rows[i].name, TRUE)
                 = get_search_variants(Truncate(call.name))[k] }

\* C22: when the normalized name of a row equals a search variant of the
\* truncated query, the first such row is chosen and no later row replaces it
\* (the detail page of the account being found).
C22_VariantRowEndsTheScan ==
    (/\ call.op = "find_committee"
     /\ trace.online = 1
     /\ call.arg.details.found
     /\ VariantRows # {}) =>
        /\ ret # <<>>
        /\ \E c \in VariantRows :
              /\ \A i \in VariantRows : c <= i
              /\ ret[1].account = call.arg.search.rows[c].account

\* the normalized lower-cased truncated query of the last call, its tokens,
\* and the two variants the spec gives a query cut mid-word
TruncatedQuery == normalize_committee_name(Truncate(call.name), TRUE)
QueryTokens == Split(TruncatedQuery)
WithoutLastToken == Join(SubSeq(QueryTokens, 1, Len(QueryTokens) - 1), <<" ">>)

CutMidWord == QueryTokens # <<>> /\ Len(QueryTokens[Len(QueryTokens)]) <= 3

\* some row of the last call's response starts with one of the two variants
SomeRowStarts ==
    \E i \in 2..Len(call.arg.search.rows) :
        /\ call.arg.search.rows[i].link
        /\ \/ StartsWith(normalize_committee_name(call.arg.search.rows[i].name, TRUE),
                         TruncatedQuery)
           \/ StartsWith(normalize_committee_name(call.arg.search.rows[i].name, TRUE),
                         WithoutLastToken)

TwoVariantsResolve ==
    /\ get_search_variants(Truncate(call.name)) = <<TruncatedQuery, WithoutLastToken>>
    /\ (call.arg.details.found /\ SomeRowStarts) => ret # <<>>

\* C23, as the spec states it: for a query whose last token has at most 3
\* characters the search variants are the normalized truncated query and the
\* same without its last token, and the search resolves to a row when a row
\* starts with either and the detail page is found.
C23_ShortLastTokenGivesTwoVariants ==
    (call.op = "find_committee" /\ trace.online = 1 /\ CutMidWord) =>
        TwoVariantsResolve

\* C23, amended: the same for a query of more than one token (a query of one
\* token has the one variant, the query itself).
C23_ShortLastOfSeveralTokens ==
    (call.op = "find_committee" /\ trace.online = 1 /\ CutMidWord
        /\ Len(QueryTokens) > 1) =>
        TwoVariantsResolve

\* the search for 'Bay Fu' resolved to 'Bay Area', which starts with the
\* second variant only
C23_Witness ==
    /\ call.op = "find_committee"
    /\ call.name = sBayFu
    /\ call.arg = WebArea
    /\ trace.online = 1
    /\ ret # <<>>
    /\ ret[1].account = <<"4">>

---------------------------------------------------------------------------
(* The online search against responses without a result *)

\* a page of two tables only; its rows are not the rows of a result table
WebFewTables ==
    [search |-> [status |-> "ok", tables |-> 2,
                 rows |-> <<HeaderRow, ResultRow(sBayFund, <<"8">>)>>],
     details |-> Details]

ResponseNext ==
    \/ LoadCommittees(File(<<rowSun>>))
    \/ \E name \in CommitteeQueries, use_cache \in BOOLEAN,
          web \in {WebFewTables, WebEmpty, WebSun, WebHit} :
          FindCommittee(name, use_cache, TRUE, web)

SpecResponse == Init /\ [][ResponseNext]_vars

\* the response has fewer than 3 tables or fewer than 2 rows, or none of its
\* rows scores above 0 for the query
NoResult(web, query) ==
    \/ web.search.tables < 3
    \/ Len(web.search.rows) < 2
    \/ \A i \in 2..Len(web.search.rows) :
          RowScore(web.search.rows[i], query)[1] = 0

\* C24: a find_by_name whose online search gets a response of unexpected
\* structure, or one in which no row scores above 0, returns an empty result
\* without raising and leaves the committee store, the name index and the
\* committee count as they were.
C24_NoResultChangesNothing ==
    [][(/\ call'.op = "find_committee"
        /\ trace'.online = 1
        /\ call'.arg.search.status = "ok"
        /\ NoResult(call'.arg, call'.name)) =>
            /\ ret' = <<>>
            /\ trace'.raised = ""
            /\ UNCHANGED <<committees, comm_name_index, total_committees>>]_vars

\* an online search that got a page of two tables, the roster being loaded
C24_Witness ==
    /\ call.op = "find_committee"
    /\ trace.online = 1
    /\ call.arg = WebFewTables
    /\ ret = <<>>
    /\ total_committees = 1

---------------------------------------------------------------------------
(* Loads, finds and back-fills in any order: the indexes and the stores *)

IndexNext ==
    \/ \E file \in CandidateFiles : LoadCandidates(file)
    \/ \E file \in CommitteeFiles : LoadCommittees(file)
    \/ \E name \in CandidateQueries : FindCandidate(name, None, TRUE)
    \/ \E name \in CommitteeQueries, web \in {WebHit, WebSun} :
          FindCommittee(name, TRUE, TRUE, web)

SpecIndex == Init /\ [][IndexNext]_vars

\* every account in the lists of the index is a key of the store
IndexedIn(index, store) ==
    \A key \in DOMAIN index :
        \A i \in 1..Len(index[key]) : index[key][i] \in DOMAIN store

\* C25: after any sequence of loads, finds and back-fills, every account in a
\* list of the candidate full-name, last-name or component index is a key of
\* the candidate store, and every account in a list of the committee name
\* index is a key of the committee store.
C25_IndexedAccountsAreStored ==
    /\ IndexedIn(cand_name_index, candidates)
    /\ IndexedIn(lastname_index, candidates)
    /\ IndexedIn(component_index, candidates)
    /\ IndexedIn(comm_name_index, committees)

\* a back-fill from the portal after a roster of candidates was loaded
C25_Witness ==
    /\ call.op = "find_committee"
    /\ trace.online = 1
    /\ ret # <<>>
    /\ ret[1].account \in DOMAIN committees
    /\ DOMAIN comm_name_index # {}
    /\ DOMAIN component_index # {}

---------------------------------------------------------------------------
(* The cache of CandidateLookup.find_by_name and the loads of rosters *)

\* the accounts, methods and confidences of a result, in its order
MatchKeys(matches) ==
    [i \in 1..Len(matches) |->
        <<matches[i].account, matches[i].match_method, matches[i].match_confidence>>]

\* C26: a find_by_name with use_cache=True returns the matches (accounts,
\* methods, confidences, order) that the same call with use_cache=False
\* returns in the lookup as it is now, whatever loads and finds came before.
C26_CachedFindEqualsUncached ==
    (call.op = "find_candidate" /\ call.use_cache) =>
        MatchKeys(ret)
            = MatchKeys(CandidateLookup_find_by_name(TheCandidateLookup, call.name,
                                                     call.party, FALSE).ret)

---------------------------------------------------------------------------
(* Finds without fallback, then one find with fallback: every run of this   *)
(* specification makes at most one call with fallback_search=True, its last *)

FallbackNext ==
    \/ ~call.fallback_search /\ LoadCommittees(File(<<rowSun>>))
    \/ \E name \in CommitteeQueries, use_cache \in BOOLEAN :
          ~call.fallback_search /\ FindCommittee(name, use_cache, FALSE, WebDown)
    \/ \E name \in CommitteeQueries, use_cache \in BOOLEAN, web \in {WebHit, WebSun} :
          ~call.fallback_search /\ FindCommittee(name, use_cache, TRUE, web)

SpecFallback == Init /\ [][FallbackNext]_vars

\* C27: a find_by_name with fallback_search=True for a name without offline
\* match, no online search having been made before, invokes the online
\* search, whatever finds with fallback_search=False came before.
C27_EarlierOfflineFindKeepsFallback ==
    [][(/\ call'.op = "find_committee"
        /\ call'.fallback_search
        /\ normalize_committee_name(call'.name, TRUE) \notin DOMAIN comm_name_index) =>
            trace'.online = 1]_vars

---------------------------------------------------------------------------
(* base.py, contributions.py, expenditures.py, transfers.py: the query
   payload of the scrapers *)

\* SunScraper._update_payload(kwargs) on the dict self.payload refers to
update_payload(p, kwargs) ==
    LET p1 == IF "candidate_first" \in DOMAIN kwargs
              THEN Put(Put(p, "CanFName", kwargs["candidate_first"]),
                       "election", "All")
              ELSE p
        p2 == IF "candidate_last" \in DOMAIN kwargs
              THEN Put(Put(p1, "CanLName", kwargs["candidate_last"]),
                       "election", "All")
              ELSE p1
        p3 == IF "committee_name" \in DOMAIN kwargs
              THEN Put(Put(Put(Put(Put(p2, "ComName", kwargs["committee_name"]),
                   "ComNameSrch", 1), "namesearch", 1), "office", "All"),
                   "election", "All")
              ELSE p2
        p4 == IF "from_date" \in DOMAIN kwargs
              THEN Put(Put(p3, "cdatefrom", kwargs["from_date"]),
                       "election", "All")
              ELSE p3
        p5 == IF "to_date" \in DOMAIN kwargs
              THEN Put(Put(p4, "cdateto", kwargs["to_date"]), "election", "All")
              ELSE p4
        p6 == IF "all_time" \in DOMAIN kwargs /\ kwargs["all_time"]
              THEN Put(p5, "election", "All")
              ELSE p5
        p7 == IF "election_id" \in DOMAIN kwargs
              THEN Put(p6, "election", kwargs["election_id"])
              ELSE p6
        p8 == IF "contributor_first" \in DOMAIN kwargs
              THEN Put(p7, "cfname", kwargs["contributor_first"])
              ELSE p7
    IN  IF "contributor_last" \in DOMAIN kwargs
        THEN Put(Put(p8, "clname", kwargs["contributor_last"]), "namesearch", 1)
        ELSE p8

\* the keyword arguments of the constructors
ScraperKwargs ==
    { <<>>,
      [candidate_first |-> "ron", candidate_last |-> "desantis"],
      [candidate_last |-> "gillum"],
      [committee_name |-> "Bay"],
      [from_date |-> "01/01/2020", to_date |-> "12/31/2020"],
      [all_time |-> TRUE],
      [election_id |-> "20201103-GEN"],
      [contributor_first |-> "ann", contributor_last |-> "lee"] }

\* ContributionScraper(enrich, **kwargs), ExpenditureScraper(**kwargs),
\* TransferScraper(**kwargs): _update_payload writes into the dict the class
\* attribute payload names, and request sends that dict; up: the portal
\* answers 200 with a header line and no rows (results [], nothing to
\* enrich), else request raises HTTPError
NewScraper(cls, kwargs, up) ==
    /\ steps < MaxSteps
    /\ payload' = [payload EXCEPT ![cls] = update_payload(@, kwargs)]
    /\ call' = [NoCall EXCEPT !.op = cls, !.arg = kwargs]
    /\ ret' = [sent |-> payload'[cls], results |-> <<>>]
    /\ trace' = [NoTrace EXCEPT !.raised = IF up THEN "" ELSE "HTTPError",
                                !.online = 1]
    /\ steps' = steps + 1
    /\ UNCHANGED <<lookupVars, fnVars>>

PayloadNext ==
    \E cls \in ScraperClasses, kwargs \in ScraperKwargs, up \in BOOLEAN :
        NewScraper(cls, kwargs, up)

SpecPayload == Init /\ [][PayloadNext]_vars

\* C28: the payload a ContributionScraper, ExpenditureScraper or
\* TransferScraper sends is the class default payload updated with the keyword
\* arguments of that instance alone, whatever scrapers of the class were
\* constructed before it.
C28_PayloadFromDefaultsAndOwnKwargs ==
    call.op \in ScraperClasses =>
        ret.sent = update_payload(ClassPayload[call.op], call.arg)

---------------------------------------------------------------------------
(* merge_with_transactions on the same transactions in another order *)

sBayFundPAC == sBayFund \o <<" ","P","A","C">>

\* a portal that lists the committees whose name starts with the query:
\* it holds 'Bay Fund' (account 8) and 'Sun PAC' (account 7)
PrefixPortal ==
    [n \in {sRoeAl, sBay, sBayFundPAC, sSunPAC} |->
        CASE n = sBay -> WebHit
          [] n = sSunPAC -> WebSun
          [] OTHER -> WebEmpty]

\* a portal that answers no query
PortalDown == [n \in {sRoeAl, sBay, sBayFundPAC, sSunPAC} |-> WebDown]

OrderPortals == {PrefixPortal, PortalDown}

OrderTransactions ==
    { Transaction(sRoeAl, sRepublican, <<"1">>),
      Transaction(sBay, <<>>, <<"3">>),
      Transaction(sBayFundPAC, <<>>, <<"4">>),
      Transaction(sSunPAC, <<>>, <<"5">>) }

OrderNext ==
    \E n \in 0..MaxTx, committee_lookup \in BOOLEAN, webs \in OrderPortals :
       \E transactions \in [1..n -> OrderTransactions] :
          Merge(transactions, committee_lookup, webs)

SpecOrder == MergeInit /\ [][OrderNext]_vars

\* the permutations of 1..n
OrdersOf(n) ==
    { f \in [1..n -> 1..n] : \A i, j \in 1..n : i # j => f[i] # f[j] }

\* the list s in the order f
Permuted(s, f) == [i \in 1..Len(s) |-> s[f[i]]]

\* the list a merge of the transactions returns on the lookups as they are
MergeResult(transactions, committee_lookup, webs) ==
    merge_with_transactions(TheCandidateLookup, TheCommitteeLookup,
        transactions, "recipient", "recipient_party", committee_lookup, webs).ret

\* C29: for a portal that answers each query deterministically, the merge of
\* a permuted transaction list, on the rosters as they were when the call
\* started, returns the enriched list permuted in the same way.
C29_MergeCommutesWithPermutation ==
    [][call'.op = "merge" =>
         \A webs \in OrderPortals :
            MergeResult(call'.arg, call'.fallback_search, webs) = ret' =>
               \A f \in OrdersOf(Len(call'.arg)) :
                  MergeResult(Permuted(call'.arg, f), call'.fallback_search, webs)
                     = Permuted(ret', f)]_vars

---------------------------------------------------------------------------
(* _load_from_file on a file with a short line among valid ones *)

\* the line '3': every field after the account number is unset
rowShort == [k \in DOMAIN rowRoe20 |-> IF k = "AcctNum" THEN <<"3">> ELSE None]
\* the line 'Al' of a file whose first column is NameFirst
rowUnkeyed == [k \in DOMAIN rowRoe20 |-> IF k = "NameFirst" THEN sAl ELSE None]
\* the line '8' of a committee file
commShort == [k \in DOMAIN rowSun |-> IF k = "AcctNum" THEN <<"8">> ELSE None]

ShortCandidateFiles ==
    { File(<<rowRoe20, rowShort, rowRoeDem>>), File(<<rowRoe22, rowUnkeyed>>),
      File(<<rowShort>>), File(<<rowRoe22, rowRoeDem>>), NoHeaderFile }

ShortCommitteeFiles ==
    { File(<<rowSun, commShort>>), File(<<commShort, rowSun>>),
      File(<<rowSun>>), File(<<rowNoName, rowSunAgain>>) }

RaiseNext ==
    \/ \E file \in ShortCandidateFiles : LoadCandidates(file)
    \/ \E file \in ShortCommitteeFiles : LoadCommittees(file)

SpecRaise == Init /\ [][RaiseNext]_vars

\* C30: a _load_from_file that raises part-way through the file leaves the
\* primary store, every index and the total count of its lookup as they were
\* before the call.
C30_RaisingLoadChangesNothing ==
    [][call'.op \in {"load_candidates", "load_committees"}
       /\ trace'.raised # ""
       => UNCHANGED <<candidates, cand_name_index, lastname_index,
                      component_index, total_candidates, committees,
                      comm_name_index, total_committees>>]_vars

====
